---- MODULE Spec2Model ----
(***************************************************************************)
(* A model of the hook catalogue of react-advance-hooks.  Every hook is an *)
(* independent adapter, so the module holds one specification per family   *)
(* of hooks, each over its own group of variables:                         *)
(*   SpecFetch     useFetch, useFetchRetry, useAsync                       *)
(*   SpecTimer     useDebounce (useDebouncedValue, useDelay), useTimeoutFn *)
(*   SpecListen    useOnClickOutside, useOnlineStatus, useSound,           *)
(*                 useEventListener, useMediaQuery, useKeyPress            *)
(*   SpecScript    useScript (several instances, one status cache)         *)
(*   SpecStorage   useLocalStorage, useSessionStorage, usePersistedState   *)
(*   SpecPair      useDebounce and useThrottle, given the same arguments   *)
(*   SpecDrag      useDragDrop                                             *)
(*   SpecLock      useScrollLock, useLockBodyScroll                        *)
(*   SpecInterval  useInterval, useTimeout                                 *)
(*   SpecBattery   useBattery                                              *)
(*   SpecAxios     useAxios                                                *)
(* The host (React) is modelled only by its contract: a state setter       *)
(* stores the value it is given, an effect runs after the render that      *)
(* changed one of its dependencies, and the cleanup returned by the        *)
(* previous run of an effect runs before the next run and at unmount.      *)
(***************************************************************************)
EXTENDS Integers, Naturals, Sequences, FiniteSets, TLC

Null == "null"

(***************************************************************************)
(* Bounds of the model.                                                    *)
(***************************************************************************)
MaxRuns == 2        \* effect runs / execute() calls started by one instance
MaxRetries == 3     \* the `retries` argument ranges over 0..MaxRetries
MaxTime == 4        \* the clock runs from 0 to MaxTime
MaxDelay == 2       \* a delay argument ranges over 0..MaxDelay
MaxChanges == 3     \* input changes and commands issued to one timer instance
MaxEffectRuns == 3  \* effect runs of one listener instance
MaxElements == 2    \* DOM elements a ref may point at
MaxScripts == 2     \* script elements created
MaxRerenders == 1   \* renders of a useScript instance with changed arguments
MaxStoreOps == 2    \* commands issued to the storage instances
MaxPairTime == 4    \* the clock of the useDebounce/useThrottle pair
MaxPairChanges == 3 \* input changes given to the pair
MaxDragEvents == 5  \* drag events handled by one useDragDrop instance
MaxLockChanges == 3 \* changes of the lock argument
MaxTicks == 3       \* timer ticks of one useInterval / useTimeout instance
MaxCbChanges == 3   \* renders of useInterval / useTimeout with changed arguments
MaxBatteryEvents == 3  \* events fired by the battery manager
MaxRequests == 2    \* makeRequest calls of one useAxios instance
MaxAxiosOps == 4    \* commands issued to one useAxios instance
MaxLockInstances == 2  \* instances of a scroll-lock hook on one page
MaxLocksChanges == 3   \* renders of those instances with another lock value
MaxHoverEvents == 4    \* pointer events on the node of one useHoverIntent instance
MaxHoverTime == 300    \* the clock of the useHoverIntent instance stops here (ms)
MaxObsElements == 2    \* elements an observer hook can be bound to
MaxObserveChanges == 3 \* rebindings and dependency changes of one observer hook
MaxDarkModeOps == 4    \* toggles and colour-scheme changes of one useDarkMode instance
MaxCopies == 3         \* copyToClipboard calls of one useClipboard instance
MaxClipboardTime == 5000  \* the clock of the useClipboard instance stops here (ms)
MaxCountTime == 4000   \* the clock of the useCountUp instance stops here (ms)
MaxCountChanges == 2   \* renders of useCountUp with another target or duration
MaxCookies == 2        \* cookies the document holds before the first render
MaxCookieOps == 1      \* setCookie and deleteCookie calls of one useCookie instance

(***************************************************************************)
(* The state.  Each family of hooks has its own variables; a step of one   *)
(* family leaves the variables of the others alone (its Frame).            *)
(***************************************************************************)
\* useFetch, useFetchRetry, useAsync
VARIABLES
    fHook,       \* which of the three hooks the instance is
    fLife,       \* "init" (rendered once, effects not yet run), "mounted", "unmounted"
    url,         \* the current url argument (useAsync: the identity of asyncFunction)
    retries,     \* useFetchRetry's retries argument
    immediate,   \* useAsync's immediate argument
    state,       \* the hook's state cell(s), as returned to the consumer
    runs,        \* the asynchronous operations started so far, in order of start
    writer       \* history: index in runs of the operation that called a setter last;
                 \* in a run, fetches counts the requests issued and commits the
                 \* setter calls made (a call of setState, or one group of calls
                 \* of useAsync's three setters)

fetchVars == <<fHook, fLife, url, retries, immediate, state, runs, writer>>

\* useDebounce (useDebouncedValue, useDelay), useTimeoutFn
VARIABLES
    tHook,           \* which hook the instance is
    tLife,           \* "init", "mounted", "unmounted"
    tPc,             \* "idle", or "effect": the old effect's cleanup has run and
                     \* the new effect has not run yet (one commit of the host)
    now,             \* the clock
    timers,          \* the platform's pending timeouts: [id, due, arg]
    nextId,          \* the id the next setTimeout returns
    value,           \* useDebounce: the value argument; useTimeoutFn: the callback
    delay,           \* the delay argument (useTimeoutFn: a number or null)
    handle,          \* useDebounce: `handler` of the last effect run;
                     \* useTimeoutFn: timeoutRef.current
    debouncedValue,  \* useDebounce's state cell
    calls,           \* useTimeoutFn: invocations of the callback so far
    lastChange,      \* history: time of the last input change (or of the mount)
    burst,           \* history: length of the run of changes each less than
                     \* `delay` after the one before
    commits,         \* history: setDebouncedValue calls since the last change
    lastCommitAt,    \* history: time of the last setDebouncedValue call
    changes          \* history: input changes and commands so far

timerVars == <<tHook, tLife, tPc, now, timers, nextId, value, delay, handle,
               debouncedValue, calls, lastChange, burst, commits, lastCommitAt,
               changes>>

\* the listener hooks
VARIABLES
    lHook,       \* which hook the instance is
    lLife,       \* "init", "mounted", "unmounted"
    lPc,         \* "idle", or "effect": between the cleanup and the rerun
    lReady,      \* isReady(): a window with a document exists
    lParam,      \* the dependency: handler / url / eventName / query / targetKey
    refCurrent,  \* useEventListener: elementRef.current (0: null, or no ref given)
    listeners,   \* every listener registered on any event target
    before,      \* history: the listeners registered before the activation
    lEff,        \* what the cleanup of the last effect run closes over:
                 \* its event target, its closures (gen) and its parameter;
                 \* gen = 0: that run returned no cleanup
    lGen,        \* effect runs so far; each run creates fresh closures
    lValue,      \* the state cell (isOnline, isPlaying, matches, isKeyPressed),
                 \* or whether the consumer's handler has been invoked
    lError,      \* useSound: error
    delivered    \* history: an event has been delivered to the instance

listenVars == <<lHook, lLife, lPc, lReady, lParam, refCurrent, listeners, before,
                lEff, lGen, lValue, lError, delivered>>

\* useScript
VARIABLES
    cachedScriptStatuses,  \* the module-level map src -> status (Null: no entry)
    scripts,               \* the script elements created so far, by creation:
                           \* [src, inDoc, phase, listeners]; listeners holds the
                           \* instances whose handleLoad/handleError are registered
    inst,                  \* the useScript instances
    sRenders               \* history: renders with changed arguments so far

scriptVars == <<cachedScriptStatuses, scripts, inst, sRenders>>

\* useLocalStorage, useSessionStorage, usePersistedState
VARIABLES
    gHook,       \* which hook the instances are
    gReady,      \* isReady(): a window with a document exists
    full,        \* the store rejects writes: setItem throws (quota exceeded)
    store,       \* the Storage object the hook uses: key -> text, or Missing
    sInst,       \* the instances: life, key, initialValue, the state cell
                 \* (storedValue / state), whether an effect is pending, and
                 \* history: `first`, the value the first render produced;
                 \* `sawCorrupt`, the item found then was unparsable;
                 \* `updated`, whether the consumer set the state while
                 \* the present key was current;
                 \* `sawWritten`, the value last written under the key then
    written,     \* history: key -> the value of the last setValue the store
                 \* accepted (NoVal: none)
    gOps         \* history: commands issued so far

storageVars == <<gHook, gReady, full, store, sInst, written, gOps>>

\* useDebounce and useThrottle side by side, given the same arguments
VARIABLES
    pLife,       \* "init", "mounted", "unmounted" (both instances: one consumer)
    pPc,         \* "idle", or "effect": between the cleanups and the reruns
    pNow,        \* the clock
    pValue,      \* the value argument both hooks are given
    pDelay,      \* the delay / limit argument both hooks are given
    pTimers,     \* hook -> its pending timeouts: [id, due, arg]
    pHandler,    \* hook -> `handler` of its last effect run
    pState,      \* hook -> its state cell (debouncedValue / throttledValue)
    pNextId,     \* the id the next pair of setTimeout calls returns
    pLog,        \* history: hook -> its commits so far, [at, val, since, wait]:
                 \* the time, the value, the time of the last input change
                 \* before it and the delay that change asked for
    pLastChange, \* history: time of the last input change (or of the mount)
    pSuperseded, \* history: hook -> pending timeouts its cleanups have cleared
    pChanges     \* history: input changes so far

pairVars == <<pLife, pPc, pNow, pValue, pDelay, pTimers, pHandler, pState,
              pNextId, pLog, pLastChange, pSuperseded, pChanges>>

\* useDragDrop
VARIABLES
    ddState,     \* the state cell: isDragging, isOver, draggedItemId, overDropId
    ddSeen,      \* state.overDropId of the last render: what the closures of
                 \* handleDragOver and handleDragLeave compare with
    transfer,    \* e.dataTransfer of the drag in progress: its 'text/plain' data
    onDrop,      \* the consumer's onDrop argument of the last render
    dropCalls,   \* history: the invocations of the consumer's callback
    ddLast,      \* history: the last event handled: its type, its drop id, the
                 \* payload it carried and overDropId before it
    ddDrops,     \* history: drop events so far
    ddEvents     \* history: events so far

dragVars == <<ddState, ddSeen, transfer, onDrop, dropCalls, ddLast, ddDrops, ddEvents>>

\* useScrollLock, useLockBodyScroll
VARIABLES
    kHook,           \* which hook the instance is
    kLife,           \* "init", "mounted", "unmounted"
    kPc,             \* "idle", or "effect": between the cleanup and the rerun
    kDocument,       \* typeof document !== 'undefined'
    lock,            \* the lock argument
    styleOverflow,   \* document.body.style.overflow (the inline style)
    sheetOverflow,   \* the overflow the page's style sheets give the body
    kCleanup,        \* what the cleanup of the last effect run closes over:
                     \* whether there is one, `lock`, and the original value
    kBefore,         \* history: the inline style right before the first lock
    kLocked,         \* history: the instance has locked at least once
    kChanges         \* history: changes of the lock argument so far

lockVars == <<kHook, kLife, kPc, kDocument, lock, styleOverflow, sheetOverflow,
              kCleanup, kBefore, kLocked, kChanges>>

\* useInterval, useTimeout
VARIABLES
    iHook,           \* which hook the instance is
    iLife,           \* "init", "mounted", "unmounted"
    iPc,             \* "idle", or "effects": rendered, the effects not yet run
    callback,        \* the callback argument of the last render
    iDelay,          \* the delay argument of the last render (or NullDelay)
    iPending,        \* which of the two effects the last render scheduled
    savedCallback,   \* savedCallback.current
    iTimers,         \* the platform's timers of the instance: [id, delay, cb],
                     \* cb the callback argument when it was registered
    iId,             \* the id the cleanup of the delay effect closes over
    iNextId,         \* the id the next setInterval / setTimeout returns
    iRegs,           \* history: setInterval / setTimeout calls so far
    iCancels,        \* history: clearInterval / clearTimeout calls so far
    iDelayRuns,      \* history: runs of the delay effect that found a delay
    iDelayChanges,   \* history: renders that changed the delay
    iStale,          \* history: a tick invoked another callback than the one
                     \* most recently supplied
    invoked,         \* history: the callbacks the ticks have invoked
    iChanges         \* history: renders with changed arguments so far

intervalVars == <<iHook, iLife, iPc, callback, iDelay, iPending, savedCallback,
                  iTimers, iId, iNextId, iRegs, iCancels, iDelayRuns,
                  iDelayChanges, iStale, invoked, iChanges>>

\* useBattery
VARIABLES
    bReady,          \* isReady(): a window with a document exists
    bGetBattery,     \* navigator has a getBattery method
    bLife,           \* "init", "mounted", "unmounted", "crashed"
    bPromise,        \* navigator.getBattery(): "none", "pending", "resolved",
                     \* "rejected"
    battery,         \* the effect's `battery` variable: assigned or still null
    bListeners,      \* the listeners registered on the battery manager
    bBefore,         \* history: the listeners registered before the activation
    bLevel,          \* the manager's current readings
    batteryState,    \* the state cell: supported, loading, and `reading` for
                     \* level, charging, chargingTime and dischargingTime
    bLate,           \* history: the promise resolved after the unmount
    bEvents          \* history: events the manager has fired so far

batteryVars == <<bReady, bGetBattery, bLife, bPromise, battery, bListeners,
                 bBefore, bLevel, batteryState, bLate, bEvents>>

\* useAxios
VARIABLES
    aLife,           \* "init", "mounted", "unmounted"
    cancelled,       \* the state cell `cancelled`
    aData,           \* the state cell `data`
    aError,          \* the state cell `error`
    aLoading,        \* the state cell `loading`
    requests,        \* the makeRequest calls so far: the url, where the call
                     \* stands, the `cancelled` its closure captured, and
                     \* history: `revoked`, cancelRequest was called or the
                     \* adapter unmounted while the call was in flight
    aOps             \* history: commands issued so far

axiosVars == <<aLife, cancelled, aData, aError, aLoading, requests, aOps>>

\* several instances of useScrollLock / useLockBodyScroll on one page
VARIABLES
    mHook,       \* which hook the instances are
    mInst,       \* per instance: life, pc, the lock argument of its last
                 \* render, and the cleanup its last effect run returned
    mStyle,      \* document.body.style.overflow
    mSheet,      \* the overflow the style sheets give the body
    mBefore,     \* history: body.style.overflow right before an instance
                 \* locked while no instance held a lock
    mOverlap,    \* history: two instances have held a lock at the same time
    mChanges     \* history: renders with another lock value so far

locksVars == <<mHook, mInst, mStyle, mSheet, mBefore, mOverlap, mChanges>>

\* useHoverIntent
VARIABLES
    hiLife,      \* "init", "mounted", "unmounted"
    hiNode,      \* whether ref.current is an element when the effect runs
    hiListening, \* whether the two listeners are registered on the node
    hiInside,    \* whether the pointer is inside the node
    hiNow,       \* the platform's clock, in ms
    hiTimers,    \* the platform's pending timeouts: [id, due]
    hiTimeout,   \* the effect's `timeout` variable: the id of the last setTimeout
    hiNextId,    \* the id the next setTimeout returns
    isHovering,  \* the state cell
    hiPendingAtUnmount, \* history: the timeouts that were pending at the unmount
    hiLateSet,   \* history: one of those set isHovering after the unmount
    hiEvents     \* history: pointer events so far

hoverIntentVars == <<hiLife, hiNode, hiListening, hiInside, hiNow, hiTimers, hiTimeout,
                     hiNextId, isHovering, hiPendingAtUnmount, hiLateSet, hiEvents>>

\* useDebouncedCallback (over the useTimeoutFn variables)
VARIABLES
    dCalls       \* history: calls of the debounced function so far

debouncedVars == <<dCalls>>

\* DOM observers: useElementSize, useResizeObserver, useIntersectionObserver, useHover
VARIABLES
    oHook,       \* which hook the instance is
    oLife,       \* "init", "mounted", "unmounted"
    oPc,         \* "idle", or "effect" between a render's cleanup and its effect
    oRef,        \* the bound element: ref.current (useElementSize: the `ref`
                 \* state), NoElement for null
    oRun,        \* the number of the last effect run (each creates its observer
                 \* or its listeners)
    oCaptured,   \* the element the last effect run captured (node, current)
    oObserved,   \* the observations in force: [run, el]
    oChanges     \* history: rebindings and renders with other dependencies

observeVars == <<oHook, oLife, oPc, oRef, oRun, oCaptured, oObserved, oChanges>>

\* useDarkMode
VARIABLES
    dmLife,      \* "init" (rendered, effect not yet run), "mounted", "unmounted"
    dmPrefers,   \* whether (prefers-color-scheme: dark) matches
    isDarkMode,  \* the state cell
    dmSeen,      \* isDarkMode of the last render: what toggleDarkMode's closure reads
    dmClass,     \* whether document.body carries the class 'dark-mode'
    dmListening, \* whether handleChange is registered on the media query
    dmToggles,   \* history: toggleDarkMode calls so far
    dmOps        \* history: toggles and scheme changes so far

darkModeVars == <<dmLife, dmPrefers, isDarkMode, dmSeen, dmClass, dmListening,
                  dmToggles, dmOps>>

\* useClipboard
VARIABLES
    cbNow,       \* the platform's clock, in ms
    copied,      \* the state cell
    cbWrites,    \* navigator.clipboard.writeText calls that have not settled
    cbTimers,    \* the platform's pending timeouts: [id, due]
    cbNextId,    \* the id the next setTimeout returns
    cbLastCopy,  \* history: the time of the last successful copy, or NoCopy
    cbOps        \* history: copyToClipboard calls so far

clipboardVars == <<cbNow, copied, cbWrites, cbTimers, cbNextId, cbLastCopy, cbOps>>

\* useCountUp
VARIABLES
    cuLife,      \* "init", "mounted", "unmounted"
    cuPc,        \* "idle", or "effect" between a render's cleanup and its effect
    target,      \* the target argument of the last render
    duration,    \* the duration argument of the last render (ms)
    count,       \* the state cell
    cuNow,       \* Date.now(), in ms
    startTime,   \* the startTime of the last effect run
    cuSeen,      \* the count of the render whose effect registered the interval:
                 \* what the interval callback's closure reads as `count`
    cuInterval,  \* the due time of the next tick of the registered interval,
                 \* or NoInterval
    cuTicks,     \* history: ticks since the last effect run
    cuChanges    \* history: renders with another target or duration

countUpVars == <<cuLife, cuPc, target, duration, count, cuNow, startTime, cuSeen,
                 cuInterval, cuTicks, cuChanges>>

\* useCookie
VARIABLES
    ckLife,      \* "init" (before the first render), "mounted"
    ckKey,       \* the key argument
    jar,         \* the cookies of the document, in the order document.cookie
                 \* lists them: [name, value], strings as sequences of characters
    cookie,      \* the state cell: [isNull, val]
    ckInitial,   \* history: the value the first render produced
    ckJarThen,   \* history: the cookies at the first render
    ckOps        \* history: setCookie and deleteCookie calls so far

cookieVars == <<ckLife, ckKey, jar, cookie, ckInitial, ckJarThen, ckOps>>

FetchFrame == UNCHANGED <<timerVars, listenVars, scriptVars, storageVars, pairVars,
                          dragVars, lockVars, intervalVars, batteryVars, axiosVars,
        locksVars,
        hoverIntentVars,
        debouncedVars,
        observeVars,
        darkModeVars,
        clipboardVars,
        countUpVars,
        cookieVars>>
TimerFrame == UNCHANGED <<fetchVars, listenVars, scriptVars, storageVars, pairVars,
                          dragVars, lockVars, intervalVars, batteryVars, axiosVars,
        locksVars,
        hoverIntentVars,
        debouncedVars,
        observeVars,
        darkModeVars,
        clipboardVars,
        countUpVars,
        cookieVars>>
ListenFrame == UNCHANGED <<fetchVars, timerVars, scriptVars, storageVars, pairVars,
                           dragVars, lockVars, intervalVars, batteryVars, axiosVars,
        locksVars,
        hoverIntentVars,
        debouncedVars,
        observeVars,
        darkModeVars,
        clipboardVars,
        countUpVars,
        cookieVars>>
ScriptFrame == UNCHANGED <<fetchVars, timerVars, listenVars, storageVars, pairVars,
                           dragVars, lockVars, intervalVars, batteryVars, axiosVars,
        locksVars,
        hoverIntentVars,
        debouncedVars,
        observeVars,
        darkModeVars,
        clipboardVars,
        countUpVars,
        cookieVars>>
StorageFrame == UNCHANGED <<fetchVars, timerVars, listenVars, scriptVars, pairVars,
                            dragVars, lockVars, intervalVars, batteryVars, axiosVars,
        locksVars,
        hoverIntentVars,
        debouncedVars,
        observeVars,
        darkModeVars,
        clipboardVars,
        countUpVars,
        cookieVars>>
PairFrame == UNCHANGED <<fetchVars, timerVars, listenVars, scriptVars, storageVars,
                         dragVars, lockVars, intervalVars, batteryVars, axiosVars,
        locksVars,
        hoverIntentVars,
        debouncedVars,
        observeVars,
        darkModeVars,
        clipboardVars,
        countUpVars,
        cookieVars>>
DragFrame == UNCHANGED <<fetchVars, timerVars, listenVars, scriptVars, storageVars,
                         pairVars, lockVars, intervalVars, batteryVars, axiosVars,
        locksVars,
        hoverIntentVars,
        debouncedVars,
        observeVars,
        darkModeVars,
        clipboardVars,
        countUpVars,
        cookieVars>>
LockFrame == UNCHANGED <<fetchVars, timerVars, listenVars, scriptVars, storageVars,
                         pairVars, dragVars, intervalVars, batteryVars, axiosVars,
        locksVars,
        hoverIntentVars,
        debouncedVars,
        observeVars,
        darkModeVars,
        clipboardVars,
        countUpVars,
        cookieVars>>
IntervalFrame == UNCHANGED <<fetchVars, timerVars, listenVars, scriptVars, storageVars,
                             pairVars, dragVars, lockVars, batteryVars, axiosVars,
        locksVars,
        hoverIntentVars,
        debouncedVars,
        observeVars,
        darkModeVars,
        clipboardVars,
        countUpVars,
        cookieVars>>
BatteryFrame == UNCHANGED <<fetchVars, timerVars, listenVars, scriptVars, storageVars,
                            pairVars, dragVars, lockVars, intervalVars, axiosVars,
        locksVars,
        hoverIntentVars,
        debouncedVars,
        observeVars,
        darkModeVars,
        clipboardVars,
        countUpVars,
        cookieVars>>
AxiosFrame == UNCHANGED <<fetchVars, timerVars, listenVars, scriptVars, storageVars,
                          pairVars, dragVars, lockVars, intervalVars, batteryVars,
        locksVars,
        hoverIntentVars,
        debouncedVars,
        observeVars,
        darkModeVars,
        clipboardVars,
        countUpVars,
        cookieVars>>
LocksFrame == UNCHANGED <<fetchVars, timerVars, listenVars, scriptVars, storageVars,
        pairVars, dragVars, lockVars, intervalVars, batteryVars,
        axiosVars,
        hoverIntentVars,
        debouncedVars,
        observeVars,
        darkModeVars,
        clipboardVars,
        countUpVars,
        cookieVars>>
HoverIntentFrame == UNCHANGED <<fetchVars, timerVars, listenVars, scriptVars, storageVars,
        pairVars, dragVars, lockVars, intervalVars, batteryVars,
        axiosVars, locksVars,
        debouncedVars,
        observeVars,
        darkModeVars,
        clipboardVars,
        countUpVars,
        cookieVars>>
DebouncedFrame == UNCHANGED <<fetchVars, listenVars, scriptVars, storageVars,
        pairVars, dragVars, lockVars, intervalVars, batteryVars,
        axiosVars, locksVars, hoverIntentVars,
        observeVars,
        darkModeVars,
        clipboardVars,
        countUpVars,
        cookieVars>>
ObserveFrame == UNCHANGED <<fetchVars, timerVars, listenVars, scriptVars, storageVars,
        pairVars, dragVars, lockVars, intervalVars, batteryVars,
        axiosVars, locksVars, hoverIntentVars, debouncedVars,
        darkModeVars,
        clipboardVars,
        countUpVars,
        cookieVars>>
DarkModeFrame == UNCHANGED <<fetchVars, timerVars, listenVars, scriptVars, storageVars,
        pairVars, dragVars, lockVars, intervalVars, batteryVars,
        axiosVars, locksVars, hoverIntentVars, debouncedVars, observeVars,
        clipboardVars,
        countUpVars,
        cookieVars>>
ClipboardFrame == UNCHANGED <<fetchVars, timerVars, listenVars, scriptVars, storageVars,
        pairVars, dragVars, lockVars, intervalVars, batteryVars,
        axiosVars, locksVars, hoverIntentVars, debouncedVars, observeVars,
        darkModeVars,
        countUpVars,
        cookieVars>>
CountUpFrame == UNCHANGED <<fetchVars, timerVars, listenVars, scriptVars, storageVars,
        pairVars, dragVars, lockVars, intervalVars, batteryVars,
        axiosVars, locksVars, hoverIntentVars, debouncedVars, observeVars,
        darkModeVars, clipboardVars,
        cookieVars>>
CookieFrame == UNCHANGED <<fetchVars, timerVars, listenVars, scriptVars, storageVars,
        pairVars, dragVars, lockVars, intervalVars, batteryVars,
        axiosVars, locksVars, hoverIntentVars, debouncedVars, observeVars,
        darkModeVars, clipboardVars, countUpVars>>


(***************************************************************************)
(*                 useFetch, useFetchRetry, useAsync                       *)
(***************************************************************************)
FetchHooks == {"useFetch", "useFetchRetry", "useAsync"}
Urls == {"A", "B"}

\* The body the server returns for a url / the value asyncFunction resolves to.
Data(u) == IF u = "A" THEN "dataA" ELSE "dataB"

\* useState's initial value.
FetchInitialState == [data |-> Null, loading |-> TRUE, error |-> Null]
AsyncInitialState == [status |-> "idle", value |-> Null, error |-> Null]

\* const [state, setState] = useState(...): the setter stores what it is given.
\* None of the three hooks guards a setter call by an "active" flag.
SuccessState(d) == [data |-> d, loading |-> FALSE, error |-> Null]
FailureState(msg) == [data |-> Null, loading |-> FALSE, error |-> msg]

\* while (attempts < retries)
LoopContinuesOffByOne(attempts, n) == attempts <= n
LoopContinues(attempts, n) == attempts < n

\* if (attempts >= retries) setState({... error ...})
ExhaustedNever(attempts, n) == attempts > n
Exhausted(attempts, n) == attempts >= n

\* fetchData() up to its first await.  useFetch always issues the request;
\* useFetchRetry issues it only if the loop is entered.
StartFetch(u) ==
    IF fHook = "useFetch" \/ LoopContinues(0, retries)
    THEN [url |-> u, pc |-> "fetch", attempts |-> 0, fetches |-> 1,
          lastErr |-> Null, outcome |-> "none", commits |-> 0]
    ELSE [url |-> u, pc |-> "done", attempts |-> 0, fetches |-> 0,
          lastErr |-> Null, outcome |-> "none", commits |-> 0]

\* The catch block of useFetchRetry followed by the loop test: the run after
\* a failed attempt with message msg.
RetryAfterFailure(r, msg) ==
    LET a == r.attempts + 1 IN
    IF LoopContinues(a, retries)
    THEN [r EXCEPT !.attempts = a, !.lastErr = msg, !.pc = "fetch",
                   !.fetches = r.fetches + 1]
    ELSE [r EXCEPT !.attempts = a, !.lastErr = msg, !.pc = "done",
                   !.outcome = "failed"]

\* useEffect(() => { fetchData(); }, [url]) at mount.
FetchActivate ==
    /\ FetchFrame
    /\ fHook \in {"useFetch", "useFetchRetry"}
    /\ fLife = "init"
    /\ fLife' = "mounted"
    /\ runs' = <<StartFetch(url)>>
    /\ UNCHANGED <<fHook, url, retries, immediate, state, writer>>

\* A render with another url: the effect runs again.  It has no cleanup, so
\* the operation started for the old url stays in flight.
FetchChangeUrl(u) ==
    /\ FetchFrame
    /\ fHook \in {"useFetch", "useFetchRetry"}
    /\ fLife = "mounted"
    /\ u # url
    /\ Len(runs) < MaxRuns
    /\ url' = u
    /\ runs' = Append(runs, StartFetch(u))
    /\ UNCHANGED <<fHook, fLife, retries, immediate, state, writer>>

\* The component unmounts.  No effect of the three hooks returns a cleanup.
FetchUnmount ==
    /\ FetchFrame
    /\ fLife = "mounted"
    /\ fLife' = "unmounted"
    /\ UNCHANGED <<fHook, url, retries, immediate, state, runs, writer>>

\* useFetch: fetch(url) rejects, or resolves with !response.ok.
FetchFails(i, msg) ==
    /\ FetchFrame
    /\ fHook = "useFetch"
    /\ runs[i].pc = "fetch"
    /\ msg \in {"network", "http"}
    /\ state' = FailureState(msg)
    /\ writer' = i
    /\ runs' = [runs EXCEPT ![i].pc = "done", ![i].attempts = 1,
                            ![i].lastErr = msg, ![i].outcome = "failed",
                            ![i].commits = @ + 1]
    /\ UNCHANGED <<fHook, fLife, url, retries, immediate>>

\* fetch(url) resolves with response.ok: the run awaits response.json().
FetchResponds(i) ==
    /\ FetchFrame
    /\ fHook \in {"useFetch", "useFetchRetry"}
    /\ runs[i].pc = "fetch"
    /\ runs' = [runs EXCEPT ![i].pc = "json"]
    /\ UNCHANGED <<fHook, fLife, url, retries, immediate, state, writer>>

\* useFetch: response.json() rejects.
FetchJsonFails(i) ==
    /\ FetchFrame
    /\ fHook = "useFetch"
    /\ runs[i].pc = "json"
    /\ state' = FailureState("parse")
    /\ writer' = i
    /\ runs' = [runs EXCEPT ![i].pc = "done", ![i].attempts = 1,
                            ![i].lastErr = "parse", ![i].outcome = "failed",
                            ![i].commits = @ + 1]
    /\ UNCHANGED <<fHook, fLife, url, retries, immediate>>

\* response.json() resolves: setState({ data, loading: false, error: null }).
FetchJsonOk(i) ==
    /\ FetchFrame
    /\ fHook \in {"useFetch", "useFetchRetry"}
    /\ runs[i].pc = "json"
    /\ state' = SuccessState(Data(runs[i].url))
    /\ writer' = i
    /\ runs' = [runs EXCEPT ![i].pc = "done", ![i].outcome = "success",
                            ![i].commits = @ + 1]
    /\ UNCHANGED <<fHook, fLife, url, retries, immediate>>

\* useFetchRetry: an attempt fails (fetch rejects, !response.ok, or json()
\* rejects): attempts++, the error is committed once attempts >= retries,
\* and the loop test decides whether another request is issued.
RetryAttemptFails(i, msg) ==
    /\ FetchFrame
    /\ fHook = "useFetchRetry"
    /\ \/ runs[i].pc = "fetch" /\ msg \in {"network", "http"}
       \/ runs[i].pc = "json" /\ msg = "parse"
    /\ IF Exhausted(runs[i].attempts + 1, retries)
       THEN /\ state' = FailureState(msg)
            /\ writer' = i
            /\ runs' = [runs EXCEPT ![i] = [RetryAfterFailure(runs[i], msg)
                                                EXCEPT !.commits = @ + 1]]
       ELSE /\ runs' = [runs EXCEPT ![i] = RetryAfterFailure(runs[i], msg)]
            /\ UNCHANGED <<state, writer>>
    /\ UNCHANGED <<fHook, fLife, url, retries, immediate>>

\* useAsync: execute() up to its await: three setter calls, then asyncFunction().
AsyncStart(u) ==
    /\ state' = [status |-> "pending", value |-> Null, error |-> Null]
    /\ runs' = Append(runs, [url |-> u, pc |-> "await", attempts |-> 0,
                             fetches |-> 1, lastErr |-> Null, outcome |-> "none",
                             commits |-> 1])
    /\ writer' = Len(runs) + 1

\* useEffect(() => { if (immediate) execute(); }, [execute, immediate]) at mount.
AsyncActivate ==
    /\ FetchFrame
    /\ fHook = "useAsync"
    /\ fLife = "init"
    /\ fLife' = "mounted"
    /\ IF immediate THEN AsyncStart(url) ELSE UNCHANGED <<state, runs, writer>>
    /\ UNCHANGED <<fHook, url, retries, immediate>>

\* A render with another asyncFunction: execute is recreated, the effect reruns.
AsyncChangeFunction(u) ==
    /\ FetchFrame
    /\ fHook = "useAsync"
    /\ fLife = "mounted"
    /\ u # url
    /\ Len(runs) < MaxRuns
    /\ url' = u
    /\ IF immediate THEN AsyncStart(u) ELSE UNCHANGED <<state, runs, writer>>
    /\ UNCHANGED <<fHook, fLife, retries, immediate>>

\* The consumer calls the returned execute().
AsyncExecute ==
    /\ FetchFrame
    /\ fHook = "useAsync"
    /\ fLife = "mounted"
    /\ Len(runs) < MaxRuns
    /\ AsyncStart(url)
    /\ UNCHANGED <<fHook, fLife, url, retries, immediate>>

\* await asyncFunction() resolves: setValue(response); setStatus('success').
AsyncResolves(i) ==
    /\ FetchFrame
    /\ fHook = "useAsync"
    /\ runs[i].pc = "await"
    /\ state' = [state EXCEPT !.value = Data(runs[i].url), !.status = "success"]
    /\ writer' = i
    /\ runs' = [runs EXCEPT ![i].pc = "done", ![i].outcome = "success",
                            ![i].commits = @ + 1]
    /\ UNCHANGED <<fHook, fLife, url, retries, immediate>>

\* await asyncFunction() rejects: setError(...); setStatus('error').
AsyncRejects(i, msg) ==
    /\ FetchFrame
    /\ fHook = "useAsync"
    /\ runs[i].pc = "await"
    /\ msg \in {"boom", "Unknown error"}
    /\ state' = [state EXCEPT !.error = msg, !.status = "error"]
    /\ writer' = i
    /\ runs' = [runs EXCEPT ![i].pc = "done", ![i].lastErr = msg,
                            ![i].outcome = "failed", ![i].commits = @ + 1]
    /\ UNCHANGED <<fHook, fLife, url, retries, immediate>>

InitFetchVars ==
    /\ fHook \in FetchHooks
    /\ fLife = "init"
    /\ url \in Urls
    /\ retries \in (IF fHook = "useFetchRetry" THEN 0..MaxRetries ELSE {MaxRetries})
    /\ immediate \in (IF fHook = "useAsync" THEN BOOLEAN ELSE {TRUE})
    /\ state = (IF fHook = "useAsync" THEN AsyncInitialState ELSE FetchInitialState)
    /\ runs = <<>>
    /\ writer = 0

NextFetch ==
    \/ FetchActivate
    \/ \E u \in Urls : FetchChangeUrl(u)
    \/ FetchUnmount
    \/ \E i \in DOMAIN runs, msg \in {"network", "http"} : FetchFails(i, msg)
    \/ \E i \in DOMAIN runs : FetchResponds(i)
    \/ \E i \in DOMAIN runs : FetchJsonFails(i)
    \/ \E i \in DOMAIN runs : FetchJsonOk(i)
    \/ \E i \in DOMAIN runs, msg \in {"network", "http", "parse"} : RetryAttemptFails(i, msg)
    \/ AsyncActivate
    \/ \E u \in Urls : AsyncChangeFunction(u)
    \/ AsyncExecute
    \/ \E i \in DOMAIN runs : AsyncResolves(i)
    \/ \E i \in DOMAIN runs, msg \in {"boom", "Unknown error"} : AsyncRejects(i, msg)


(***************************************************************************)
(*      useDebounce (useDebouncedValue, useDelay), useTimeoutFn            *)
(* useDebouncedValue (676-685) and useDelay (650-659) are useDebounce with *)
(* other local names; the model of useDebounce is the model of all three.  *)
(***************************************************************************)
TimerHooks == {"useDebounce", "useTimeoutFn"}
Values == {"a", "b"}
Delays == 0..MaxDelay
NullDelay == -1     \* delay: number | null -- the null
NoTimer == 0        \* a handle that holds no timeout id yet (undefined: falsy)

\* The platform: setTimeout registers a timeout due `d` from now, clearTimeout
\* drops the timeout with that id, if it is still pending.
SetTimeout(ts, id, d, arg) == ts \cup {[id |-> id, due |-> now + d, arg |-> arg]}
ClearTimeout(ts, id) == {t \in ts : t.id # id}

\* return () => clearTimeout(handler)
DebounceNoCleanup(ts, h) == ts
DebounceCleanup(ts, h) == ClearTimeout(ts, h)

\* useTimeoutFn.clear
TimeoutFnClear(ts, ref) == IF ref # NoTimer THEN ClearTimeout(ts, ref) ELSE ts

\* useTimeoutFn.reset: the timers after it
TimeoutFnResetNoClear(ts, ref, d, cb, id) ==
    IF d # NullDelay THEN SetTimeout(ts, id, d, cb) ELSE ts
TimeoutFnReset(ts, ref, d, cb, id) ==
    IF d # NullDelay THEN SetTimeout(TimeoutFnClear(ts, ref), id, d, cb)
    ELSE TimeoutFnClear(ts, ref)

\* useDebounce's effect: const handler = setTimeout(() => setDebouncedValue(value), delay)
DebounceEffect ==
    /\ timers' = SetTimeout(timers, nextId, delay', value')
    /\ handle' = nextId
    /\ nextId' = nextId + 1

DebounceActivate ==
    /\ TimerFrame
    /\ tHook = "useDebounce"
    /\ tLife = "init"
    /\ tLife' = "mounted"
    /\ UNCHANGED <<value, delay>>
    /\ DebounceEffect
    /\ lastChange' = now
    /\ UNCHANGED <<tHook, tPc, now, debouncedValue, calls, burst, commits,
                   lastCommitAt, changes>>

\* A render with another value or delay: first the cleanup of the last effect run.
DebounceChange(v, d) ==
    /\ TimerFrame
    /\ tHook = "useDebounce"
    /\ tLife = "mounted"
    /\ tPc = "idle"
    /\ <<v, d>> # <<value, delay>>
    /\ changes < MaxChanges
    /\ changes' = changes + 1
    /\ value' = v
    /\ delay' = d
    /\ timers' = DebounceCleanup(timers, handle)
    /\ tPc' = "effect"
    /\ burst' = IF now - lastChange < delay THEN burst + 1 ELSE 1
    /\ lastChange' = now
    /\ commits' = 0
    /\ UNCHANGED <<tHook, tLife, now, nextId, handle, debouncedValue, calls,
                   lastCommitAt>>

\* ... then the effect runs with the new value and delay.
DebounceRerun ==
    /\ TimerFrame
    /\ tHook = "useDebounce"
    /\ tPc = "effect"
    /\ tPc' = "idle"
    /\ UNCHANGED <<value, delay>>
    /\ DebounceEffect
    /\ UNCHANGED <<tHook, tLife, now, debouncedValue, calls, lastChange, burst,
                   commits, lastCommitAt, changes>>

\* A pending timeout expires: () => setDebouncedValue(value), with the value
\* the effect run captured.
DebounceFire(t) ==
    /\ TimerFrame
    /\ tHook = "useDebounce"
    /\ tPc = "idle"
    /\ t \in timers
    /\ t.due <= now
    /\ timers' = timers \ {t}
    /\ debouncedValue' = t.arg
    /\ commits' = commits + 1
    /\ lastCommitAt' = now
    /\ UNCHANGED <<tHook, tLife, tPc, now, nextId, value, delay, handle, calls,
                   lastChange, burst, changes>>

DebounceUnmount ==
    /\ TimerFrame
    /\ tHook = "useDebounce"
    /\ tLife = "mounted"
    /\ tPc = "idle"
    /\ tLife' = "unmounted"
    /\ timers' = DebounceCleanup(timers, handle)
    /\ UNCHANGED <<tHook, tPc, now, nextId, value, delay, handle, debouncedValue,
                   calls, lastChange, burst, commits, lastCommitAt, changes>>

\* reset() as a step: the timers, timeoutRef.current and the id counter after it.
TimeoutFnDoReset(ts, d, cb) ==
    /\ timers' = TimeoutFnReset(ts, handle, d, cb, nextId)
    /\ handle' = IF d # NullDelay THEN nextId ELSE handle
    /\ nextId' = IF d # NullDelay THEN nextId + 1 ELSE nextId

\* useEffect(() => { reset(); return clear; }, [callback, delay]) at mount.
TimeoutFnActivate ==
    /\ TimerFrame
    /\ tHook = "useTimeoutFn"
    /\ tLife = "init"
    /\ tLife' = "mounted"
    /\ TimeoutFnDoReset(timers, delay, value)
    /\ lastChange' = now
    /\ UNCHANGED <<tHook, tPc, now, value, delay, debouncedValue, calls, burst,
                   commits, lastCommitAt, changes>>

\* A render with another callback or delay: the cleanup (clear) ...
TimeoutFnChange(cb, d) ==
    /\ TimerFrame
    /\ tHook = "useTimeoutFn"
    /\ tLife = "mounted"
    /\ tPc = "idle"
    /\ <<cb, d>> # <<value, delay>>
    /\ changes < MaxChanges
    /\ changes' = changes + 1
    /\ value' = cb
    /\ delay' = d
    /\ timers' = TimeoutFnClear(timers, handle)
    /\ tPc' = "effect"
    /\ lastChange' = now
    /\ UNCHANGED <<tHook, tLife, now, nextId, handle, debouncedValue, calls, burst,
                   commits, lastCommitAt>>

\* ... then the effect: reset() of the new render.
TimeoutFnRerun ==
    /\ TimerFrame
    /\ tHook = "useTimeoutFn"
    /\ tPc = "effect"
    /\ tPc' = "idle"
    /\ TimeoutFnDoReset(timers, delay, value)
    /\ UNCHANGED <<tHook, tLife, now, value, delay, debouncedValue, calls,
                   lastChange, burst, commits, lastCommitAt, changes>>

\* The consumer calls the returned reset().
TimeoutFnCallReset ==
    /\ TimerFrame
    /\ tHook = "useTimeoutFn"
    /\ tLife = "mounted"
    /\ tPc = "idle"
    /\ changes < MaxChanges
    /\ changes' = changes + 1
    /\ TimeoutFnDoReset(timers, delay, value)
    /\ lastChange' = now
    /\ UNCHANGED <<tHook, tLife, tPc, now, value, delay, debouncedValue, calls,
                   burst, commits, lastCommitAt>>

\* The consumer calls the returned clear().
TimeoutFnCallClear ==
    /\ TimerFrame
    /\ tHook = "useTimeoutFn"
    /\ tLife = "mounted"
    /\ tPc = "idle"
    /\ changes < MaxChanges
    /\ changes' = changes + 1
    /\ timers' = TimeoutFnClear(timers, handle)
    /\ UNCHANGED <<tHook, tLife, tPc, now, nextId, value, delay, handle,
                   debouncedValue, calls, lastChange, burst, commits,
                   lastCommitAt>>

\* A pending timeout expires: the callback it was registered with is invoked.
\* timeoutRef.current keeps the id of the expired timeout.
TimeoutFnFire(t) ==
    /\ TimerFrame
    /\ tHook = "useTimeoutFn"
    /\ tPc = "idle"
    /\ t \in timers
    /\ t.due <= now
    /\ timers' = timers \ {t}
    /\ calls' = calls + 1
    /\ UNCHANGED <<tHook, tLife, tPc, now, nextId, value, delay, handle,
                   debouncedValue, lastChange, burst, commits, lastCommitAt,
                   changes>>

TimeoutFnUnmount ==
    /\ TimerFrame
    /\ tHook = "useTimeoutFn"
    /\ tLife = "mounted"
    /\ tPc = "idle"
    /\ tLife' = "unmounted"
    /\ timers' = TimeoutFnClear(timers, handle)
    /\ UNCHANGED <<tHook, tPc, now, nextId, value, delay, handle, debouncedValue,
                   calls, lastChange, burst, commits, lastCommitAt, changes>>

\* Time passes.  A timeout never fires before it is due; it may fire later.
Tick ==
    /\ TimerFrame
    /\ tPc = "idle"
    /\ now < MaxTime
    /\ now' = now + 1
    /\ UNCHANGED <<tHook, tLife, tPc, timers, nextId, value, delay, handle,
                   debouncedValue, calls, lastChange, burst, commits,
                   lastCommitAt, changes>>

InitTimerVars ==
    /\ tHook \in TimerHooks
    /\ tLife = "init"
    /\ tPc = "idle"
    /\ now = 0
    /\ timers = {}
    /\ nextId = 1
    /\ value \in Values
    /\ delay \in (IF tHook = "useTimeoutFn" THEN Delays \cup {NullDelay} ELSE Delays)
    /\ handle = NoTimer
    /\ debouncedValue = value
    /\ calls = 0
    /\ lastChange = 0
    /\ burst = 0
    /\ commits = 0
    /\ lastCommitAt = 0
    /\ changes = 0

NextTimer ==
    \/ DebounceActivate
    \/ \E v \in Values, d \in Delays : DebounceChange(v, d)
    \/ DebounceRerun
    \/ \E t \in timers : DebounceFire(t)
    \/ DebounceUnmount
    \/ TimeoutFnActivate
    \/ \E cb \in Values, d \in Delays \cup {NullDelay} : TimeoutFnChange(cb, d)
    \/ TimeoutFnRerun
    \/ TimeoutFnCallReset
    \/ TimeoutFnCallClear
    \/ \E t \in timers : TimeoutFnFire(t)
    \/ TimeoutFnUnmount
    \/ Tick

(***************************************************************************)
(*   Listener hooks: useOnClickOutside, useOnlineStatus, useSound,         *)
(*                   useEventListener, useMediaQuery, useKeyPress          *)
(***************************************************************************)
ListenHooks == {"useOnClickOutside", "useOnlineStatus", "useSound",
                "useEventListener", "useMediaQuery", "useKeyPress"}
Params == {"p", "q"}
Elements == 0..MaxElements

Window == [kind |-> "window", id |-> 0]
Document == [kind |-> "document", id |-> 0]

\* A listener: target.addEventListener(type, fn); fn is the closure `name`
\* created by effect run gen (gen 0: code outside the instance).
Listener(tgt, ty, g, nm) ==
    [target |-> tgt, type |-> ty, fn |-> [gen |-> g, name |-> nm]]

\* Listeners other code may have registered before the instance activates.
Foreign == {Listener(Document, "mousedown", 0, "other"),
            Listener(Window, "online", 0, "other"),
            Listener(Window, "p", 0, "other")}

\* The event target an effect run binds to.
EffectTarget(h, g) ==
    CASE h = "useOnClickOutside" -> Document
      [] h = "useSound" -> [kind |-> "audio", id |-> g]
      [] h = "useMediaQuery" -> [kind |-> "mql", id |-> g]
      [] h = "useEventListener" ->
            IF refCurrent # 0 THEN [kind |-> "element", id |-> refCurrent] ELSE Window
      [] OTHER -> Window

\* if (!isReady() || ...) return;  -- before anything is registered
EarlyReturn(h) == h \in {"useSound", "useEventListener"} /\ ~lReady

\* The addEventListener calls of an effect run.
Registered(h, tgt, g, p) ==
    CASE h = "useOnClickOutside" ->
            {Listener(tgt, "mousedown", g, "listener"),
             Listener(tgt, "touchstart", g, "listener")}
      [] h = "useOnlineStatus" ->
            {Listener(tgt, "online", g, "handleOnline"),
             Listener(tgt, "offline", g, "handleOffline")}
      [] h = "useSound" ->
            {Listener(tgt, "play", g, "handlePlay"),
             Listener(tgt, "pause", g, "handlePause"),
             Listener(tgt, "error", g, "handleError")}
      [] h = "useEventListener" -> {Listener(tgt, p, g, "eventListener")}
      [] h = "useMediaQuery" -> {Listener(tgt, "change", g, "updateMatch")}
      [] h = "useKeyPress" ->
            {Listener(tgt, "keydown", g, "handleKeyDown"),
             Listener(tgt, "keyup", g, "handleKeyUp")}

\* A cleanup that forgets the second listener of a pair.
RemovedFirstOnly(h, tgt, g, p) ==
    {l \in Registered(h, tgt, g, p) :
        l.type \notin {"touchstart", "offline", "pause", "keyup"}}
\* A cleanup that names the closures of the next render, not the registered ones.
RemovedOtherClosures(h, tgt, g, p) == Registered(h, tgt, g + 1, p)
\* The removeEventListener calls of the cleanup an effect run returns.
Removed(h, tgt, g, p) ==
    CASE h = "useOnClickOutside" ->
            {Listener(tgt, "mousedown", g, "listener"),
             Listener(tgt, "touchstart", g, "listener")}
      [] h = "useOnlineStatus" ->
            {Listener(tgt, "online", g, "handleOnline"),
             Listener(tgt, "offline", g, "handleOffline")}
      [] h = "useSound" ->
            {Listener(tgt, "play", g, "handlePlay"),
             Listener(tgt, "pause", g, "handlePause"),
             Listener(tgt, "error", g, "handleError")}
      [] h = "useEventListener" -> {Listener(tgt, p, g, "eventListener")}
      [] h = "useMediaQuery" -> {Listener(tgt, "change", g, "updateMatch")}
      [] h = "useKeyPress" ->
            {Listener(tgt, "keydown", g, "handleKeyDown"),
             Listener(tgt, "keyup", g, "handleKeyUp")}

NoCleanup == [target |-> Window, gen |-> 0, param |-> "p"]

\* The cleanup of the last effect run, if it returned one.
ListenCleanup ==
    IF lEff.gen = 0 THEN listeners
    ELSE listeners \ Removed(lHook, lEff.target, lEff.gen, lEff.param)

\* An effect run: closures lGen + 1, bound to the target and parameter of now.
ListenEffect ==
    /\ lGen' = lGen + 1
    /\ IF EarlyReturn(lHook)
       THEN /\ UNCHANGED listeners
            /\ lEff' = NoCleanup
            /\ lError' = IF lHook = "useSound" THEN "unsupported" ELSE lError
            /\ UNCHANGED lValue
       ELSE /\ listeners' = listeners \cup
                 Registered(lHook, EffectTarget(lHook, lGen + 1), lGen + 1, lParam)
            /\ lEff' = [target |-> EffectTarget(lHook, lGen + 1), gen |-> lGen + 1,
                        param |-> lParam]
            /\ UNCHANGED lError
            /\ IF lHook = "useMediaQuery" THEN lValue' \in BOOLEAN
               ELSE UNCHANGED lValue

ListenActivate ==
    /\ ListenFrame
    /\ lLife = "init"
    /\ lLife' = "mounted"
    /\ ListenEffect
    /\ UNCHANGED <<lHook, lPc, lReady, lParam, refCurrent, before, delivered>>

\* A render with another dependency value: the cleanup of the last run ...
ListenChange(p) ==
    /\ ListenFrame
    /\ lHook # "useOnlineStatus"
    /\ lLife = "mounted"
    /\ lPc = "idle"
    /\ p # lParam
    /\ lGen < MaxEffectRuns
    /\ lParam' = p
    /\ listeners' = ListenCleanup
    /\ lPc' = "effect"
    /\ UNCHANGED <<lHook, lLife, lReady, refCurrent, before, lEff, lGen, lValue,
                   lError, delivered>>

\* ... then the effect again.
ListenRerun ==
    /\ ListenFrame
    /\ lPc = "effect"
    /\ lPc' = "idle"
    /\ ListenEffect
    /\ UNCHANGED <<lHook, lLife, lReady, lParam, refCurrent, before, delivered>>

ListenUnmount ==
    /\ ListenFrame
    /\ lLife = "mounted"
    /\ lPc = "idle"
    /\ lLife' = "unmounted"
    /\ listeners' = ListenCleanup
    /\ UNCHANGED <<lHook, lPc, lReady, lParam, refCurrent, before, lEff, lGen,
                   lValue, lError, delivered>>

\* useEventListener: the element the ref points at changes; no effect reruns.
RefAttach(e) ==
    /\ ListenFrame
    /\ lHook = "useEventListener"
    /\ lLife = "mounted"
    /\ lPc = "idle"
    /\ e # refCurrent
    /\ refCurrent' = e
    /\ UNCHANGED <<lHook, lLife, lPc, lReady, lParam, listeners, before, lEff,
                   lGen, lValue, lError, delivered>>

\* What a registered closure of the instance does with an event; b is what
\* the event carries (the key is targetKey, the query matches, the click is
\* outside the element).
Handle(l, b) ==
    CASE l.fn.name = "handleOnline" -> TRUE
      [] l.fn.name = "handleOffline" -> FALSE
      [] l.fn.name = "handlePlay" -> TRUE
      [] l.fn.name = "handlePause" -> FALSE
      [] l.fn.name = "handleKeyDown" -> IF b THEN TRUE ELSE lValue
      [] l.fn.name = "handleKeyUp" -> IF b THEN FALSE ELSE lValue
      [] l.fn.name = "updateMatch" -> b
      [] l.fn.name = "listener" -> IF b THEN TRUE ELSE lValue
      [] l.fn.name = "eventListener" -> TRUE
      [] OTHER -> lValue

\* The target dispatches an event to a listener the instance has registered.
Dispatch(l, b) ==
    /\ ListenFrame
    /\ lPc = "idle"
    /\ l \in listeners
    /\ l.fn.gen > 0
    /\ lValue' = Handle(l, b)
    /\ lError' = IF l.fn.name = "handleError" THEN "media" ELSE lError
    /\ delivered' = TRUE
    /\ UNCHANGED <<lHook, lLife, lPc, lReady, lParam, refCurrent, listeners,
                   before, lEff, lGen>>

InitListenVars ==
    /\ lHook \in ListenHooks
    /\ lLife = "init"
    /\ lPc = "idle"
    /\ lReady \in (IF lHook \in {"useSound", "useEventListener"} THEN BOOLEAN ELSE {TRUE})
    /\ lParam \in Params
    /\ refCurrent \in (IF lHook = "useEventListener" THEN Elements ELSE {0})
    /\ before \in SUBSET Foreign
    /\ listeners = before
    /\ lEff = NoCleanup
    /\ lGen = 0
    /\ lValue \in (IF lHook = "useOnlineStatus" THEN BOOLEAN ELSE {FALSE})
    /\ lError = Null
    /\ delivered = FALSE

NextListen ==
    \/ ListenActivate
    \/ \E p \in Params : ListenChange(p)
    \/ ListenRerun
    \/ ListenUnmount
    \/ \E e \in Elements : RefAttach(e)
    \/ \E l \in listeners, b \in BOOLEAN : Dispatch(l, b)

(***************************************************************************)
(*                              useScript                                  *)
(***************************************************************************)
\* Two instances: a first one and the second one the claims speak of.
Inst == {1, 2}
Srcs == {"s1", "s2"}

\* document.querySelector(`script[src="${src}"]`)
QueryScript(s) == \E e \in DOMAIN scripts : scripts[e].inDoc /\ scripts[e].src = s

\* useState(cachedStatus || (isScriptExisting ? 'ready' : 'loading'))
InitialStatus(cached, existing) ==
    IF cached # Null THEN cached ELSE IF existing THEN "ready" ELSE "loading"

\* if (typeof window === 'undefined' || isScriptExisting) return;
\* The effect tests the element found at render time, not the cache.
SkipsAcquisition(existing, cached) == existing

\* The first render of an instance: the two lookups and the initial state.
ScriptRender(i, s, r) ==
    /\ ScriptFrame
    /\ inst[i].life = "none"
    /\ inst' = [inst EXCEPT ![i] =
                  [life |-> "rendered", src |-> s, removeOnUnmount |-> r,
                   isScriptExisting |-> QueryScript(s),
                   cachedStatus |-> cachedScriptStatuses[s],
                   status |-> InitialStatus(cachedScriptStatuses[s], QueryScript(s)),
                   script |-> 0, effRemove |-> FALSE]]
    /\ UNCHANGED <<cachedScriptStatuses, scripts, sRenders>>

\* The cleanup an effect run returned: the two listeners are removed and, if
\* removeOnUnmount, the element leaves the document.
ScriptsAfterCleanup(i) ==
    IF inst[i].script = 0 THEN scripts
    ELSE [scripts EXCEPT ![inst[i].script] =
            [@ EXCEPT !.listeners = @ \ {i},
                      !.inDoc = IF inst[i].effRemove THEN FALSE ELSE @]]

\* The effect body after the early return: createElement, the two listeners,
\* appendChild.
ScriptAppend(scr, i) ==
    Append(scr, [src |-> inst[i].src, inDoc |-> TRUE, phase |-> "loading",
                 listeners |-> {i}])

\* The effect runs: after the first render, or after a render with changed
\* arguments (then the cleanup of the previous run comes first).
ScriptEffect(i) ==
    /\ ScriptFrame
    /\ inst[i].life \in {"rendered", "rerendered"}
    /\ LET cleaned == IF inst[i].life = "rerendered"
                      THEN ScriptsAfterCleanup(i) ELSE scripts
       IN IF SkipsAcquisition(inst[i].isScriptExisting, inst[i].cachedStatus)
          THEN /\ scripts' = cleaned
               /\ inst' = [inst EXCEPT ![i].life = "mounted", ![i].script = 0]
          ELSE /\ Len(scripts) < MaxScripts
               /\ scripts' = ScriptAppend(cleaned, i)
               /\ inst' = [inst EXCEPT ![i].life = "mounted",
                                       ![i].script = Len(scripts) + 1,
                                       ![i].effRemove = inst[i].removeOnUnmount]
    /\ UNCHANGED <<cachedScriptStatuses, sRenders>>

\* A render with another src or removeOnUnmount.  The status cell keeps its
\* value: useState reads its initial value at the first render only.
ScriptRerender(i, s, r) ==
    /\ ScriptFrame
    /\ inst[i].life = "mounted"
    /\ <<s, r>> # <<inst[i].src, inst[i].removeOnUnmount>>
    /\ sRenders < MaxRerenders
    /\ sRenders' = sRenders + 1
    /\ inst' = [inst EXCEPT ![i].life = "rerendered", ![i].src = s,
                            ![i].removeOnUnmount = r,
                            ![i].isScriptExisting = QueryScript(s),
                            ![i].cachedStatus = cachedScriptStatuses[s]]
    /\ UNCHANGED <<cachedScriptStatuses, scripts>>

ScriptUnmount(i) ==
    /\ ScriptFrame
    /\ inst[i].life = "mounted"
    /\ inst' = [inst EXCEPT ![i].life = "unmounted"]
    /\ scripts' = ScriptsAfterCleanup(i)
    /\ UNCHANGED <<cachedScriptStatuses, sRenders>>

\* A script element settles: its load (or error) event reaches every
\* registered handleLoad (handleError): setStatus and the cache entry.
ScriptSettles(e, ev) ==
    /\ ScriptFrame
    /\ scripts[e].phase = "loading"
    /\ ev \in {"ready", "error"}
    /\ scripts' = [scripts EXCEPT ![e].phase = IF ev = "ready" THEN "loaded" ELSE "failed"]
    /\ inst' = [i \in Inst |->
                  IF i \in scripts[e].listeners
                  THEN [inst[i] EXCEPT !.status = ev] ELSE inst[i]]
    /\ cachedScriptStatuses' =
          IF scripts[e].listeners # {}
          THEN [cachedScriptStatuses EXCEPT ![scripts[e].src] = ev]
          ELSE cachedScriptStatuses
    /\ UNCHANGED sRenders

NoInstance ==
    [life |-> "none", src |-> "s1", removeOnUnmount |-> FALSE,
     isScriptExisting |-> FALSE, cachedStatus |-> Null, status |-> "unknown",
     script |-> 0, effRemove |-> FALSE]

\* A script tag of the page itself, loaded before any instance exists.
PageScript == [src |-> "s1", inDoc |-> TRUE, phase |-> "loaded", listeners |-> {}]

InitScriptVars ==
    /\ cachedScriptStatuses = [s \in Srcs |-> Null]
    /\ scripts \in {<<>>, <<PageScript>>}
    /\ inst = [i \in Inst |-> NoInstance]
    /\ sRenders = 0

NextScript ==
    \/ \E i \in Inst, s \in Srcs, r \in BOOLEAN : ScriptRender(i, s, r)
    \/ \E i \in Inst : ScriptEffect(i)
    \/ \E i \in Inst, s \in Srcs, r \in BOOLEAN : ScriptRerender(i, s, r)
    \/ \E i \in Inst : ScriptUnmount(i)
    \/ \E e \in DOMAIN scripts, ev \in {"ready", "error"} : ScriptSettles(e, ev)

(***************************************************************************)
(*          useLocalStorage, useSessionStorage, usePersistedState          *)
(***************************************************************************)
StorageHooks == {"useLocalStorage", "useSessionStorage", "usePersistedState"}
Keys == {"k1", "k2"}
SInst == {1, 2}     \* an instance and a fresh one over the same store

\* JavaScript values, as [t: the type, v: the value written out].
VNull == [t |-> "null", v |-> ""]
VFalse == [t |-> "bool", v |-> "false"]
VZero == [t |-> "num", v |-> "0"]
VEmpty == [t |-> "str", v |-> ""]
VA == [t |-> "str", v |-> "a"]
VObj == [t |-> "obj", v |-> "{}"]
NoVal == [t |-> "none", v |-> ""]
Vals == {VNull, VFalse, VZero, VEmpty, VObj}   \* arguments of setValue
Inits == {VA, VZero}                           \* initialValue arguments

\* storage.getItem(key) of a key that has no item returns null.
Missing == "(no item)"
\* Items other code may have left in the store.
InitialItems == {Missing, "", "{bad", "\"a\""}

\* JSON.stringify of a JSON value.
Stringify(x) ==
    CASE x.t = "null" -> "null"
      [] x.t = "bool" -> x.v
      [] x.t = "num" -> x.v
      [] x.t = "str" -> (IF x.v = "" THEN "\"\"" ELSE "\"a\"")
      [] x.t = "obj" -> "{}"

\* JSON.parse: the value, or a SyntaxError.
Parse(text) ==
    CASE text = "null" -> [ok |-> TRUE, val |-> VNull]
      [] text = "false" -> [ok |-> TRUE, val |-> VFalse]
      [] text = "0" -> [ok |-> TRUE, val |-> VZero]
      [] text = "\"\"" -> [ok |-> TRUE, val |-> VEmpty]
      [] text = "\"a\"" -> [ok |-> TRUE, val |-> VA]
      [] text = "{}" -> [ok |-> TRUE, val |-> VObj]
      [] OTHER -> [ok |-> FALSE, val |-> NoVal]

\* The truthiness of what getItem returned: null and "" are falsy.
Truthy(item) == item # Missing /\ item # ""

\* JavaScript truthiness of a parsed value.
TruthyValue(x) == x \notin {VNull, VFalse, VZero, VEmpty, NoVal}

\* item ? JSON.parse(item) : initialValue  -- [threw, val]
ParsedOrInitial(item, init) ==
    IF Truthy(item) /\ ~Parse(item).ok THEN [threw |-> TRUE, val |-> NoVal]
    ELSE IF Truthy(item) /\ TruthyValue(Parse(item).val)
         THEN [threw |-> FALSE, val |-> Parse(item).val]
         ELSE [threw |-> FALSE, val |-> init]
ItemOrInitial(item, init) ==
    IF Truthy(item)
    THEN IF Parse(item).ok THEN [threw |-> FALSE, val |-> Parse(item).val]
         ELSE [threw |-> TRUE, val |-> NoVal]
    ELSE [threw |-> FALSE, val |-> init]

\* try { ... } catch { return initialValue; }
Caught(r, init) == IF r.threw THEN [threw |-> FALSE, val |-> init] ELSE r

\* The useState initializer of each hook: what the first render produces.
\* usePersistedState parses outside any try block.
ReadInitial(h, item, init) ==
    CASE h = "useLocalStorage" -> Caught(ItemOrInitial(item, init), init)
      [] h = "useSessionStorage" ->
            IF ~gReady THEN [threw |-> FALSE, val |-> init]
            ELSE Caught(ItemOrInitial(item, init), init)
      [] h = "usePersistedState" -> ItemOrInitial(item, init)

\* storage.setItem(key, JSON.stringify(value)), when the store accepts it.
SetItem(st, k, x) == [st EXCEPT ![k] = Stringify(x)]

NoStorageInstance ==
    [life |-> "none", key |-> "k1", initialValue |-> VA, storedValue |-> NoVal,
     pending |-> FALSE, first |-> NoVal, sawCorrupt |-> FALSE, sawWritten |-> NoVal,
     updated |-> FALSE]

\* The first render of an instance (instances activate in the order of their
\* numbers).  An exception thrown by the initializer reaches the consumer:
\* the render fails.
StorageRender(i, k, init) ==
    /\ StorageFrame
    /\ sInst[i].life = "none"
    /\ \A j \in SInst : j < i => sInst[j].life # "none"
    /\ LET r == ReadInitial(gHook, store[k], init) IN
       sInst' = [sInst EXCEPT ![i] =
                   [life |-> IF r.threw THEN "crashed" ELSE "mounted",
                    key |-> k, initialValue |-> init, storedValue |-> r.val,
                    pending |-> (gHook = "usePersistedState" /\ ~r.threw),
                    first |-> r.val,
                    sawCorrupt |-> (Truthy(store[k]) /\ ~Parse(store[k]).ok),
                    sawWritten |-> written[k],
                    updated |-> FALSE]]
    /\ UNCHANGED <<gHook, gReady, full, store, written, gOps>>

\* useLocalStorage.setValue / useSessionStorage.setValue: the state is set,
\* then the item is written; a rejected write is caught and logged.
SetValue(i, v) ==
    /\ StorageFrame
    /\ gHook \in {"useLocalStorage", "useSessionStorage"}
    /\ sInst[i].life = "mounted"
    /\ gOps < MaxStoreOps
    /\ gOps' = gOps + 1
    /\ sInst' = [sInst EXCEPT ![i].storedValue = v]
    /\ IF (gHook = "useSessionStorage" /\ ~gReady) \/ full
       THEN UNCHANGED <<store, written>>
       ELSE /\ store' = SetItem(store, sInst[i].key, v)
            /\ written' = [written EXCEPT ![sInst[i].key] = v]
    /\ UNCHANGED <<gHook, gReady, full>>

\* usePersistedState: the consumer calls the returned setState.
PersistSetState(i, v) ==
    /\ StorageFrame
    /\ gHook = "usePersistedState"
    /\ sInst[i].life = "mounted"
    /\ v # sInst[i].storedValue
    /\ gOps < MaxStoreOps
    /\ gOps' = gOps + 1
    /\ sInst' = [sInst EXCEPT ![i].storedValue = v, ![i].pending = TRUE,
                              ![i].updated = TRUE]
    /\ UNCHANGED <<gHook, gReady, full, store, written>>

\* usePersistedState: useEffect(() => setItem(key, stringify(state)), [key, state]).
\* A rejected write throws out of the effect.
PersistEffect(i) ==
    /\ StorageFrame
    /\ gHook = "usePersistedState"
    /\ sInst[i].life = "mounted"
    /\ sInst[i].pending
    /\ IF full
       THEN /\ sInst' = [sInst EXCEPT ![i].pending = FALSE, ![i].life = "crashed"]
            /\ UNCHANGED <<store, written>>
       ELSE /\ sInst' = [sInst EXCEPT ![i].pending = FALSE]
            /\ store' = SetItem(store, sInst[i].key, sInst[i].storedValue)
            /\ written' = [written EXCEPT ![sInst[i].key] = sInst[i].storedValue]
    /\ UNCHANGED <<gHook, gReady, full, gOps>>

\* A render with another key.  The state cell keeps its value (the
\* initializer runs at the first render only); usePersistedState's effect
\* depends on the key and runs again.
StorageChangeKey(i, k) ==
    /\ StorageFrame
    /\ sInst[i].life = "mounted"
    /\ k # sInst[i].key
    /\ gOps < MaxStoreOps
    /\ gOps' = gOps + 1
    /\ sInst' = [sInst EXCEPT ![i].key = k,
                              ![i].pending = (gHook = "usePersistedState"),
                              ![i].updated = FALSE]
    /\ UNCHANGED <<gHook, gReady, full, store, written>>

\* The store runs out of space: from now on setItem throws.
StoreFills ==
    /\ StorageFrame
    /\ ~full
    /\ gReady
    /\ full' = TRUE
    /\ UNCHANGED <<gHook, gReady, store, sInst, written, gOps>>

InitStorageVars ==
    /\ gHook \in StorageHooks
    /\ gReady \in (IF gHook = "useSessionStorage" THEN BOOLEAN ELSE {TRUE})
    /\ full = FALSE
    /\ store \in {st \in [Keys -> InitialItems] : st["k2"] \in {Missing, "{bad"}}
    /\ sInst = [i \in SInst |-> NoStorageInstance]
    /\ written = [k \in Keys |-> NoVal]
    /\ gOps = 0

NextStorage ==
    \/ \E i \in SInst, k \in Keys, init \in Inits : StorageRender(i, k, init)
    \/ \E i \in SInst, v \in Vals : SetValue(i, v)
    \/ \E i \in SInst, v \in Vals : PersistSetState(i, v)
    \/ \E i \in SInst : PersistEffect(i)
    \/ \E i \in SInst, k \in Keys : StorageChangeKey(i, k)
    \/ StoreFills

(***************************************************************************)
(*        useDebounce and useThrottle, given the same arguments            *)
(* One consumer renders both hooks with the same value and the same delay  *)
(* (limit); the platform runs the timeouts of both.  Each hook has its own *)
(* timeouts, handler and state cell.                                       *)
(***************************************************************************)
PairHooks == {"useDebounce", "useThrottle"}

\* setTimeout(fn, d) called at time t.
SetTimeoutAt(ts, id, t, d, arg) == ts \cup {[id |-> id, due |-> t + d, arg |-> arg]}

\* useDebounce: const handler = setTimeout(() => setDebouncedValue(value), delay)
DebounceSchedule(ts, id, t, v, d) == SetTimeoutAt(ts, id, t, d, v)

\* useThrottle: const handler = setTimeout(() => setThrottledValue(value), limit)
ThrottleSchedule(ts, id, t, v, limit) == SetTimeoutAt(ts, id, t, limit, v)

\* useThrottle: return () => clearTimeout(handler)
ThrottleKeepsPending(ts, h) == ts
ThrottleCleanup(ts, h) == ClearTimeout(ts, h)

PairSchedule(h, ts, id, t, v, d) ==
    IF h = "useDebounce" THEN DebounceSchedule(ts, id, t, v, d)
    ELSE ThrottleSchedule(ts, id, t, v, d)

PairCleanup(h, ts, id) ==
    IF h = "useDebounce" THEN DebounceCleanup(ts, id) ELSE ThrottleCleanup(ts, id)

\* The effects of both hooks run, with the value and delay of the render.
PairEffects ==
    /\ pTimers' = [h \in PairHooks |->
                     PairSchedule(h, pTimers[h], pNextId, pNow, pValue', pDelay')]
    /\ pHandler' = [h \in PairHooks |-> pNextId]
    /\ pNextId' = pNextId + 1

PairActivate ==
    /\ PairFrame
    /\ pLife = "init"
    /\ pLife' = "mounted"
    /\ UNCHANGED <<pValue, pDelay>>
    /\ PairEffects
    /\ pLastChange' = pNow
    /\ UNCHANGED <<pPc, pNow, pState, pLog, pSuperseded, pChanges>>

\* A render with another value or delay: the cleanups of both effects ...
PairChange(v, d) ==
    /\ PairFrame
    /\ pLife = "mounted"
    /\ pPc = "idle"
    /\ <<v, d>> # <<pValue, pDelay>>
    /\ pChanges < MaxPairChanges
    /\ pChanges' = pChanges + 1
    /\ pValue' = v
    /\ pDelay' = d
    /\ pTimers' = [h \in PairHooks |-> PairCleanup(h, pTimers[h], pHandler[h])]
    /\ pSuperseded' = [h \in PairHooks |->
                         pSuperseded[h] + Cardinality(pTimers[h] \ pTimers'[h])]
    /\ pPc' = "effect"
    /\ pLastChange' = pNow
    /\ UNCHANGED <<pLife, pNow, pHandler, pState, pNextId, pLog>>

\* ... then both effects.
PairRerun ==
    /\ PairFrame
    /\ pPc = "effect"
    /\ pPc' = "idle"
    /\ UNCHANGED <<pValue, pDelay>>
    /\ PairEffects
    /\ UNCHANGED <<pLife, pNow, pState, pLog, pLastChange, pSuperseded, pChanges>>

\* The timeouts of hook h that are due, and the oldest of them.
PairDue(h) == {t \in pTimers[h] : t.due <= pNow}
PairOldest(h) == CHOOSE t \in PairDue(h) : \A u \in PairDue(h) : t.id <= u.id

\* The platform runs the timeouts that are due: in each hook the oldest one,
\* () => setDebouncedValue(value) or () => setThrottledValue(value), with the
\* value its effect run captured.
PairExpire ==
    /\ PairFrame
    /\ pPc = "idle"
    /\ \E h \in PairHooks : PairDue(h) # {}
    /\ pTimers' = [h \in PairHooks |->
                     IF PairDue(h) # {} THEN pTimers[h] \ {PairOldest(h)}
                     ELSE pTimers[h]]
    /\ pState' = [h \in PairHooks |->
                    IF PairDue(h) # {} THEN PairOldest(h).arg ELSE pState[h]]
    /\ pLog' = [h \in PairHooks |->
                  IF PairDue(h) # {}
                  THEN Append(pLog[h], [at |-> pNow, val |-> PairOldest(h).arg,
                                        since |-> pLastChange, wait |-> pDelay])
                  ELSE pLog[h]]
    /\ UNCHANGED <<pLife, pPc, pNow, pValue, pDelay, pHandler, pNextId,
                   pLastChange, pSuperseded, pChanges>>

PairUnmount ==
    /\ PairFrame
    /\ pLife = "mounted"
    /\ pPc = "idle"
    /\ pLife' = "unmounted"
    /\ pTimers' = [h \in PairHooks |-> PairCleanup(h, pTimers[h], pHandler[h])]
    /\ UNCHANGED <<pPc, pNow, pValue, pDelay, pHandler, pState, pNextId, pLog,
                   pLastChange, pSuperseded, pChanges>>

\* Time passes.  A timeout never fires before it is due; it may fire later.
PairTick ==
    /\ PairFrame
    /\ pPc = "idle"
    /\ pNow < MaxPairTime
    /\ pNow' = pNow + 1
    /\ UNCHANGED <<pLife, pPc, pValue, pDelay, pTimers, pHandler, pState, pNextId,
                   pLog, pLastChange, pSuperseded, pChanges>>

InitPairVars ==
    /\ pLife = "init"
    /\ pPc = "idle"
    /\ pNow = 0
    /\ pValue \in Values
    /\ pDelay \in Delays
    /\ pTimers = [h \in PairHooks |-> {}]
    /\ pHandler = [h \in PairHooks |-> NoTimer]
    /\ pState = [h \in PairHooks |-> pValue]
    /\ pNextId = 1
    /\ pLog = [h \in PairHooks |-> <<>>]
    /\ pLastChange = 0
    /\ pSuperseded = [h \in PairHooks |-> 0]
    /\ pChanges = 0

NextPair ==
    \/ PairActivate
    \/ \E v \in Values, d \in Delays : PairChange(v, d)
    \/ PairRerun
    \/ PairExpire
    \/ PairUnmount
    \/ PairTick

(***************************************************************************)
(*                              useDragDrop                                *)
(* handleDragOver and handleDragLeave are recreated by the render that     *)
(* follows a change of state.overDropId.  Whether that render comes before *)
(* the next event depends on the host (an update made in a drag event may  *)
(* be rendered after the events the platform dispatches in the same task): *)
(* the render is a step of its own.                                        *)
(***************************************************************************)
DragIds == {"d1", "d2"}
DropIds == {"z1", "z2"}
Callbacks == {"f", "g"}
NoDrag == "(no drag)"
\* What getData('text/plain') returns for a drag started outside the
\* instance: a text, or '' when the drag carries no text.
ForeignData == {"ext", ""}

DragInitialState ==
    [isDragging |-> FALSE, isOver |-> FALSE, draggedItemId |-> Null,
     overDropId |-> Null]

\* e.dataTransfer.setData('text/plain', dragId)
SetData(dragId) == dragId

\* const dragId = e.dataTransfer.getData('text/plain')
DropDragIdFromState(data, st) == st.draggedItemId
DropDragId(data, st) == data

\* The history of an event: what it was and what it found.
DragEvent(ty, dropId) ==
    [type |-> ty, dropId |-> dropId, payload |-> transfer, cb |-> onDrop,
     wasOver |-> ddState.overDropId]

\* handleDragStart
HandleDragStart(dragId) ==
    /\ DragFrame
    /\ transfer = NoDrag
    /\ ddEvents < MaxDragEvents
    /\ ddEvents' = ddEvents + 1
    /\ transfer' = SetData(dragId)
    /\ ddState' = [isDragging |-> TRUE, isOver |-> FALSE,
                   draggedItemId |-> dragId, overDropId |-> Null]
    /\ ddLast' = [DragEvent("start", Null) EXCEPT !.payload = dragId]
    /\ UNCHANGED <<ddSeen, onDrop, dropCalls, ddDrops>>

\* A drag that starts elsewhere on the page or outside the window.
ForeignDragStart(x) ==
    /\ DragFrame
    /\ transfer = NoDrag
    /\ ddEvents < MaxDragEvents
    /\ ddEvents' = ddEvents + 1
    /\ transfer' = x
    /\ UNCHANGED <<ddState, ddSeen, onDrop, dropCalls, ddLast, ddDrops>>

\* handleDragOver
HandleDragOver(dropId) ==
    /\ DragFrame
    /\ transfer # NoDrag
    /\ ddEvents < MaxDragEvents
    /\ ddEvents' = ddEvents + 1
    /\ ddState' = IF ddSeen # dropId
                  THEN [ddState EXCEPT !.isOver = TRUE, !.overDropId = dropId]
                  ELSE ddState
    /\ ddLast' = DragEvent("over", dropId)
    /\ UNCHANGED <<ddSeen, transfer, onDrop, dropCalls, ddDrops>>

\* handleDragEnter
HandleDragEnter(dropId) ==
    /\ DragFrame
    /\ transfer # NoDrag
    /\ ddEvents < MaxDragEvents
    /\ ddEvents' = ddEvents + 1
    /\ ddState' = [ddState EXCEPT !.isOver = TRUE, !.overDropId = dropId]
    /\ ddLast' = DragEvent("enter", dropId)
    /\ UNCHANGED <<ddSeen, transfer, onDrop, dropCalls, ddDrops>>

\* handleDragLeave
HandleDragLeave(dropId) ==
    /\ DragFrame
    /\ transfer # NoDrag
    /\ ddEvents < MaxDragEvents
    /\ ddEvents' = ddEvents + 1
    /\ ddState' = IF ddSeen = dropId
                  THEN [ddState EXCEPT !.isOver = FALSE, !.overDropId = Null]
                  ELSE ddState
    /\ ddLast' = DragEvent("leave", dropId)
    /\ UNCHANGED <<ddSeen, transfer, onDrop, dropCalls, ddDrops>>

\* handleDrop.  The drop ends the drag.
HandleDrop(dropId) ==
    /\ DragFrame
    /\ transfer # NoDrag
    /\ ddEvents < MaxDragEvents
    /\ ddEvents' = ddEvents + 1
    /\ LET dragId == DropDragId(transfer, ddState) IN
         /\ ddState' = [isDragging |-> FALSE, isOver |-> FALSE,
                        draggedItemId |-> dragId, overDropId |-> dropId]
         /\ dropCalls' = Append(dropCalls, [cb |-> onDrop, dragId |-> dragId,
                                            dropId |-> dropId])
    /\ ddDrops' = ddDrops + 1
    /\ ddLast' = DragEvent("drop", dropId)
    /\ transfer' = NoDrag
    /\ UNCHANGED <<ddSeen, onDrop>>

\* The drag ends without a drop (released elsewhere, or Escape): the hook
\* binds no handler to it.
DragCancelled ==
    /\ DragFrame
    /\ transfer # NoDrag
    /\ transfer' = NoDrag
    /\ UNCHANGED <<ddState, ddSeen, onDrop, dropCalls, ddLast, ddDrops, ddEvents>>

\* A render with another onDrop: handleDrop is recreated ([onDrop]).
DragChangeOnDrop(cb) ==
    /\ DragFrame
    /\ cb # onDrop
    /\ ddEvents < MaxDragEvents
    /\ ddEvents' = ddEvents + 1
    /\ onDrop' = cb
    /\ ddSeen' = ddState.overDropId
    /\ UNCHANGED <<ddState, transfer, dropCalls, ddLast, ddDrops>>

\* The render that follows a change of the state: handleDragOver and
\* handleDragLeave are recreated ([state.overDropId]).
DragRender ==
    /\ DragFrame
    /\ ddSeen # ddState.overDropId
    /\ ddSeen' = ddState.overDropId
    /\ UNCHANGED <<ddState, transfer, onDrop, dropCalls, ddLast, ddDrops, ddEvents>>

InitDragVars ==
    /\ ddState = DragInitialState
    /\ ddSeen = Null
    /\ transfer = NoDrag
    /\ onDrop \in Callbacks
    /\ dropCalls = <<>>
    /\ ddLast = [type |-> "none", dropId |-> Null, payload |-> NoDrag,
                 cb |-> onDrop, wasOver |-> Null]
    /\ ddDrops = 0
    /\ ddEvents = 0

NextDrag ==
    \/ \E d \in DragIds : HandleDragStart(d)
    \/ \E x \in ForeignData : ForeignDragStart(x)
    \/ \E z \in DropIds : HandleDragOver(z)
    \/ \E z \in DropIds : HandleDragEnter(z)
    \/ \E z \in DropIds : HandleDragLeave(z)
    \/ \E z \in DropIds : HandleDrop(z)
    \/ DragCancelled
    \/ DragRender
    \/ \E cb \in Callbacks : DragChangeOnDrop(cb)

(***************************************************************************)
(*                    useScrollLock, useLockBodyScroll                     *)
(***************************************************************************)
LockHooks == {"useScrollLock", "useLockBodyScroll"}
InlineOverflows == {"", "auto", "hidden"}
SheetOverflows == {"visible", "scroll"}

\* window.getComputedStyle(document.body).overflow: the inline style wins
\* over the style sheets; with no inline style the sheets' value applies.
ComputedOverflow(inline, sheet) == IF inline # "" THEN inline ELSE sheet

\* useScrollLock: const originalOverflow = document.body.style.overflow
\* useLockBodyScroll: const originalStyle = window.getComputedStyle(document.body).overflow
OriginalOverflow(h, inline, sheet) ==
    IF h = "useScrollLock" THEN inline ELSE ComputedOverflow(inline, sheet)

\* Whether the effect run returns a cleanup: useScrollLock only inside
\* if (lock); useLockBodyScroll unless typeof document === 'undefined'.
LockReturnsCleanup(h, l, doc) == IF h = "useScrollLock" THEN l ELSE doc

\* Whether the effect run sets document.body.style.overflow = 'hidden'.
LockSets(h, l, doc) == l /\ (h = "useScrollLock" \/ doc)

NoLockCleanup == [has |-> FALSE, lock |-> FALSE, original |-> ""]

\* The effect body, with the lock argument of the render.
LockEffect ==
    /\ kCleanup' = IF LockReturnsCleanup(kHook, lock', kDocument)
                   THEN [has |-> TRUE, lock |-> lock',
                         original |-> OriginalOverflow(kHook, styleOverflow,
                                                       sheetOverflow)]
                   ELSE NoLockCleanup
    /\ styleOverflow' = IF LockSets(kHook, lock', kDocument)
                        THEN "hidden" ELSE styleOverflow
    /\ kBefore' = IF LockSets(kHook, lock', kDocument) /\ ~kLocked
                  THEN styleOverflow ELSE kBefore
    /\ kLocked' = (kLocked \/ LockSets(kHook, lock', kDocument))

\* The cleanup of the last effect run: the style the body has after it.
\* useScrollLock's cleanup exists only if it locked; useLockBodyScroll's
\* restores only if (lock).
LockCleanup(c, inline) == IF c.has /\ c.lock THEN c.original ELSE inline

LockActivate ==
    /\ LockFrame
    /\ kLife = "init"
    /\ kLife' = "mounted"
    /\ UNCHANGED lock
    /\ LockEffect
    /\ UNCHANGED <<kHook, kPc, kDocument, sheetOverflow, kChanges>>

\* A render with the other lock value: the cleanup ...
LockChange ==
    /\ LockFrame
    /\ kLife = "mounted"
    /\ kPc = "idle"
    /\ kChanges < MaxLockChanges
    /\ kChanges' = kChanges + 1
    /\ lock' = ~lock
    /\ styleOverflow' = LockCleanup(kCleanup, styleOverflow)
    /\ kPc' = "effect"
    /\ UNCHANGED <<kHook, kLife, kDocument, sheetOverflow, kCleanup, kBefore,
                   kLocked>>

\* ... then the effect.
LockRerun ==
    /\ LockFrame
    /\ kPc = "effect"
    /\ kPc' = "idle"
    /\ UNCHANGED lock
    /\ LockEffect
    /\ UNCHANGED <<kHook, kLife, kDocument, sheetOverflow, kChanges>>

LockUnmount ==
    /\ LockFrame
    /\ kLife = "mounted"
    /\ kPc = "idle"
    /\ kLife' = "unmounted"
    /\ styleOverflow' = LockCleanup(kCleanup, styleOverflow)
    /\ UNCHANGED <<kHook, kPc, kDocument, lock, sheetOverflow, kCleanup, kBefore,
                   kLocked, kChanges>>

InitLockVars ==
    /\ kHook \in LockHooks
    /\ kLife = "init"
    /\ kPc = "idle"
    /\ kDocument \in (IF kHook = "useLockBodyScroll" THEN BOOLEAN ELSE {TRUE})
    /\ lock \in BOOLEAN
    /\ styleOverflow \in InlineOverflows
    /\ sheetOverflow \in SheetOverflows
    /\ kCleanup = NoLockCleanup
    /\ kBefore = styleOverflow
    /\ kLocked = FALSE
    /\ kChanges = 0

NextLock ==
    \/ LockActivate
    \/ LockChange
    \/ LockRerun
    \/ LockUnmount

(***************************************************************************)
(*                         useInterval, useTimeout                         *)
(* Two effects: one stores the callback in savedCallback.current           *)
(* ([callback]), the other registers the platform timer ([delay]).  The    *)
(* host runs the effects of a render in order, and no timer callback runs  *)
(* between a render and its effects.                                       *)
(***************************************************************************)
IntervalHooks == {"useInterval", "useTimeout"}
IntervalDelays == {1, 2, NullDelay}

\* const tick = () => savedCallback.current?.()
TickInvokesRegistered(saved, registered) == registered
TickInvokes(saved, registered) == saved

\* if (delay === null) return;
DelayIsNull(d) == d = NullDelay

\* The delay effect: setInterval(tick, delay) / setTimeout(..., delay), and
\* the cleanup closes over the id.
DelayEffect ==
    IF DelayIsNull(iDelay)
    THEN /\ iId' = NoTimer
         /\ UNCHANGED <<iTimers, iNextId, iRegs, iDelayRuns>>
    ELSE /\ iTimers' = iTimers \cup {[id |-> iNextId, delay |-> iDelay,
                                      cb |-> callback]}
         /\ iId' = iNextId
         /\ iNextId' = iNextId + 1
         /\ iRegs' = iRegs + 1
         /\ iDelayRuns' = iDelayRuns + 1

\* return () => clearInterval(id) / clearTimeout(timer): the timers after it.
DelayCleanup(ts, id) == {t \in ts : t.id # id}

IntervalActivate ==
    /\ IntervalFrame
    /\ iLife = "init"
    /\ iLife' = "mounted"
    /\ savedCallback' = callback
    /\ DelayEffect
    /\ UNCHANGED <<iHook, iPc, callback, iDelay, iPending, iCancels,
                   iDelayChanges, iStale, invoked, iChanges>>

\* A render with another callback or delay.  The cleanup of the delay
\* effect runs if the delay changed and its last run returned one.
IntervalChange(cb, d) ==
    /\ IntervalFrame
    /\ iLife = "mounted"
    /\ iPc = "idle"
    /\ <<cb, d>> # <<callback, iDelay>>
    /\ iChanges < MaxCbChanges
    /\ iChanges' = iChanges + 1
    /\ callback' = cb
    /\ iDelay' = d
    /\ iPending' = [cb |-> cb # callback, delay |-> d # iDelay]
    /\ iDelayChanges' = IF d # iDelay THEN iDelayChanges + 1 ELSE iDelayChanges
    /\ IF d # iDelay /\ iId # NoTimer
       THEN /\ iTimers' = DelayCleanup(iTimers, iId)
            /\ iCancels' = iCancels + 1
       ELSE UNCHANGED <<iTimers, iCancels>>
    /\ iPc' = "effects"
    /\ UNCHANGED <<iHook, iLife, savedCallback, iId, iNextId, iRegs, iDelayRuns,
                   iStale, invoked>>

\* The effects the render scheduled.
IntervalEffects ==
    /\ IntervalFrame
    /\ iPc = "effects"
    /\ iPc' = "idle"
    /\ savedCallback' = IF iPending.cb THEN callback ELSE savedCallback
    /\ IF iPending.delay THEN DelayEffect
       ELSE UNCHANGED <<iTimers, iId, iNextId, iRegs, iDelayRuns>>
    /\ iPending' = [cb |-> FALSE, delay |-> FALSE]
    /\ UNCHANGED <<iHook, iLife, callback, iDelay, iCancels, iDelayChanges,
                   iStale, invoked, iChanges>>

\* The platform runs the timer.  A timeout is spent by it, an interval stays.
IntervalTick(t) ==
    /\ IntervalFrame
    /\ iPc = "idle"
    /\ t \in iTimers
    /\ Len(invoked) < MaxTicks
    /\ LET f == TickInvokes(savedCallback, t.cb) IN
         /\ invoked' = Append(invoked, f)
         /\ iStale' = (iStale \/ f # callback)
    /\ iTimers' = IF iHook = "useTimeout" THEN iTimers \ {t} ELSE iTimers
    /\ UNCHANGED <<iHook, iLife, iPc, callback, iDelay, iPending, savedCallback,
                   iId, iNextId, iRegs, iCancels, iDelayRuns, iDelayChanges,
                   iChanges>>

IntervalUnmount ==
    /\ IntervalFrame
    /\ iLife = "mounted"
    /\ iPc = "idle"
    /\ iLife' = "unmounted"
    /\ IF iId # NoTimer
       THEN /\ iTimers' = DelayCleanup(iTimers, iId)
            /\ iCancels' = iCancels + 1
       ELSE UNCHANGED <<iTimers, iCancels>>
    /\ UNCHANGED <<iHook, iPc, callback, iDelay, iPending, savedCallback, iId,
                   iNextId, iRegs, iDelayRuns, iDelayChanges, iStale, invoked,
                   iChanges>>

InitIntervalVars ==
    /\ iHook \in IntervalHooks
    /\ iLife = "init"
    /\ iPc = "idle"
    /\ callback \in Callbacks
    /\ iDelay \in IntervalDelays
    /\ iPending = [cb |-> FALSE, delay |-> FALSE]
    /\ savedCallback = Null
    /\ iTimers = {}
    /\ iId = NoTimer
    /\ iNextId = 1
    /\ iRegs = 0
    /\ iCancels = 0
    /\ iDelayRuns = 0
    /\ iDelayChanges = 0
    /\ iStale = FALSE
    /\ invoked = <<>>
    /\ iChanges = 0

NextInterval ==
    \/ IntervalActivate
    \/ \E cb \in Callbacks, d \in IntervalDelays : IntervalChange(cb, d)
    \/ IntervalEffects
    \/ \E t \in iTimers : IntervalTick(t)
    \/ IntervalUnmount

(***************************************************************************)
(*                               useBattery                                *)
(***************************************************************************)
BatteryEvents == {"levelchange", "chargingchange", "chargingtimechange",
                  "dischargingtimechange"}
Readings == {"r1", "r2"}

\* A listener on the battery manager; owner "self": handleBatteryChange of
\* the instance, "other": a listener of other code.
BatteryListener(ty, who) == [type |-> ty, owner |-> who]
OwnBatteryListeners == {BatteryListener(ty, "self") : ty \in BatteryEvents}
ForeignBatteryListeners == {BatteryListener("levelchange", "other")}

\* useState's initial value.
BatteryInitialState == [supported |-> TRUE, loading |-> TRUE, reading |-> Null]

\* setBatteryState((prevState) => ({...prevState, supported: false, loading: false}))
Unsupported(prev) == [prev EXCEPT !.supported = FALSE, !.loading = FALSE]

\* handleBatteryChange: if (battery) setBatteryState({...})
HandleBatteryChange(assigned, reading, st) ==
    IF assigned THEN [supported |-> TRUE, loading |-> FALSE, reading |-> reading]
    ELSE st

\* The effect at mount.  Without a window the state reports the absence;
\* with a window, _navigator.getBattery() is called whether or not the
\* navigator has the method: calling undefined throws a TypeError out of
\* the effect.
BatteryActivate ==
    /\ BatteryFrame
    /\ bLife = "init"
    /\ IF ~bReady
       THEN /\ batteryState' = Unsupported(batteryState)
            /\ bLife' = "mounted"
            /\ UNCHANGED bPromise
       ELSE IF ~bGetBattery
       THEN /\ bLife' = "crashed"
            /\ UNCHANGED <<batteryState, bPromise>>
       ELSE /\ bPromise' = "pending"
            /\ bLife' = "mounted"
            /\ UNCHANGED batteryState
    /\ UNCHANGED <<bReady, bGetBattery, battery, bListeners, bBefore, bLevel,
                   bLate, bEvents>>

\* getBattery() resolves: the .then callback assigns battery, calls
\* handleBatteryChange and adds the four listeners.  Nothing in it tests
\* whether the cleanup has run.
BatteryResolves ==
    /\ BatteryFrame
    /\ bPromise = "pending"
    /\ bPromise' = "resolved"
    /\ battery' = TRUE
    /\ batteryState' = HandleBatteryChange(TRUE, bLevel, batteryState)
    /\ bListeners' = bListeners \cup OwnBatteryListeners
    /\ bLate' = (bLife = "unmounted")
    /\ UNCHANGED <<bReady, bGetBattery, bLife, bBefore, bLevel, bEvents>>

\* getBattery() rejects (the permissions policy denies it): no handler.
BatteryRejects ==
    /\ BatteryFrame
    /\ bPromise = "pending"
    /\ bPromise' = "rejected"
    /\ UNCHANGED <<bReady, bGetBattery, bLife, battery, bListeners, bBefore,
                   bLevel, batteryState, bLate, bEvents>>

\* The manager's readings change and it fires the event: every listener of
\* the instance for that event runs handleBatteryChange.
BatteryFires(ty, r) ==
    /\ BatteryFrame
    /\ bReady /\ bGetBattery
    /\ r # bLevel
    /\ bEvents < MaxBatteryEvents
    /\ bEvents' = bEvents + 1
    /\ bLevel' = r
    /\ batteryState' = IF BatteryListener(ty, "self") \in bListeners
                       THEN HandleBatteryChange(battery, r, batteryState)
                       ELSE batteryState
    /\ UNCHANGED <<bReady, bGetBattery, bLife, bPromise, battery, bListeners,
                   bBefore, bLate>>

\* The cleanup: if (battery) the four removeEventListener calls.  The early
\* return of the effect (no window) returns no cleanup.
BatteryCleanup(ready, assigned, ls) ==
    IF ready /\ assigned THEN ls \ OwnBatteryListeners ELSE ls

BatteryUnmount ==
    /\ BatteryFrame
    /\ bLife = "mounted"
    /\ bLife' = "unmounted"
    /\ bListeners' = BatteryCleanup(bReady, battery, bListeners)
    /\ UNCHANGED <<bReady, bGetBattery, bPromise, battery, bBefore, bLevel,
                   batteryState, bLate, bEvents>>

InitBatteryVars ==
    /\ bReady \in BOOLEAN
    /\ bGetBattery \in (IF bReady THEN BOOLEAN ELSE {FALSE})
    /\ bLife = "init"
    /\ bPromise = "none"
    /\ battery = FALSE
    /\ bListeners \in SUBSET ForeignBatteryListeners
    /\ bBefore = bListeners
    /\ bLevel \in Readings
    /\ batteryState = BatteryInitialState
    /\ bLate = FALSE
    /\ bEvents = 0

NextBattery ==
    \/ BatteryActivate
    \/ BatteryResolves
    \/ BatteryRejects
    \/ \E ty \in BatteryEvents, r \in Readings : BatteryFires(ty, r)
    \/ BatteryUnmount

(***************************************************************************)
(*                                useAxios                                 *)
(* makeRequest is recreated by every render (axiosInstance is), so a call  *)
(* closes over the `cancelled` of the render before it; the closure keeps  *)
(* that value while the request is in flight.                              *)
(***************************************************************************)
\* A makeRequest call past its guard: setLoading(true); setError(null); await.
AxiosRequest(u, seen) ==
    [url |-> u, pc |-> "flight", seen |-> seen, revoked |-> FALSE]

\* cancelRequest = () => setCancelled(true): the calls in flight are the
\* ones it is meant to stop.
Revoke(rs) ==
    [i \in DOMAIN rs |-> IF rs[i].pc = "flight" THEN [rs[i] EXCEPT !.revoked = TRUE]
                         ELSE rs[i]]

\* useEffect(() => { return () => cancelRequest(); }, []) at mount.
AxiosActivate ==
    /\ AxiosFrame
    /\ aLife = "init"
    /\ aLife' = "mounted"
    /\ UNCHANGED <<cancelled, aData, aError, aLoading, requests, aOps>>

\* The consumer calls makeRequest(url).
MakeRequest(u) ==
    /\ AxiosFrame
    /\ aLife = "mounted"
    /\ aOps < MaxAxiosOps
    /\ Len(requests) < MaxRequests
    /\ aOps' = aOps + 1
    /\ IF cancelled
       THEN UNCHANGED <<aLoading, aError, requests>>
       ELSE /\ aLoading' = TRUE
            /\ aError' = Null
            /\ requests' = Append(requests, AxiosRequest(u, cancelled))
    /\ UNCHANGED <<aLife, cancelled, aData>>

\* The consumer calls cancelRequest().
CancelRequest ==
    /\ AxiosFrame
    /\ aLife = "mounted"
    /\ aOps < MaxAxiosOps
    /\ aOps' = aOps + 1
    /\ cancelled' = TRUE
    /\ requests' = Revoke(requests)
    /\ UNCHANGED <<aLife, aData, aError, aLoading>>

\* The component unmounts: the cleanup calls cancelRequest().
AxiosUnmount ==
    /\ AxiosFrame
    /\ aLife = "mounted"
    /\ aLife' = "unmounted"
    /\ cancelled' = TRUE
    /\ requests' = Revoke(requests)
    /\ UNCHANGED <<aData, aError, aLoading, aOps>>

\* await axiosInstance(...) resolves: if (!cancelled) setData; finally
\* if (!cancelled) setLoading(false) -- `cancelled` of the call's closure.
AxiosResolves(i) ==
    /\ AxiosFrame
    /\ requests[i].pc = "flight"
    /\ requests' = [requests EXCEPT ![i].pc = "done"]
    /\ aData' = IF ~requests[i].seen THEN Data(requests[i].url) ELSE aData
    /\ aLoading' = IF ~requests[i].seen THEN FALSE ELSE aLoading
    /\ UNCHANGED <<aLife, cancelled, aError, aOps>>

\* await axiosInstance(...) rejects: catch, then finally.
AxiosRejects(i, msg) ==
    /\ AxiosFrame
    /\ requests[i].pc = "flight"
    /\ requests' = [requests EXCEPT ![i].pc = "done"]
    /\ aError' = IF ~requests[i].seen THEN msg ELSE aError
    /\ aLoading' = IF ~requests[i].seen THEN FALSE ELSE aLoading
    /\ UNCHANGED <<aLife, cancelled, aData, aOps>>

InitAxiosVars ==
    /\ aLife = "init"
    /\ cancelled = FALSE
    /\ aData = Null
    /\ aError = Null
    /\ aLoading = FALSE
    /\ requests = <<>>
    /\ aOps = 0

NextAxios ==
    \/ AxiosActivate
    \/ \E u \in Urls : MakeRequest(u)
    \/ CancelRequest
    \/ AxiosUnmount
    \/ \E i \in DOMAIN requests : AxiosResolves(i)
    \/ \E i \in DOMAIN requests, msg \in {"Network Error", "An error occurred"} :
          AxiosRejects(i, msg)

(***************************************************************************)
(*        Several instances of useScrollLock / useLockBodyScroll           *)
(* Each instance runs the effect of the hook on the one document.body;     *)
(* the closure of each effect run keeps the overflow it read.              *)
(***************************************************************************)
LockInst == 1 .. MaxLockInstances

\* Whether the last effect run of an instance set overflow = 'hidden' and
\* has not been cleaned up.
HoldsLock(r) == r.cleanup.has /\ r.cleanup.lock

\* The effect body of instance i, with the lock argument l of its render.
LocksEffect(i, l, life) ==
    /\ mInst' = [mInst EXCEPT ![i] =
                   [life |-> life, pc |-> "idle", lock |-> l,
                    cleanup |-> IF LockReturnsCleanup(mHook, l, TRUE)
                                THEN [has |-> TRUE, lock |-> l,
                                      original |-> OriginalOverflow(mHook, mStyle, mSheet)]
                                ELSE NoLockCleanup]]
    /\ mStyle' = IF LockSets(mHook, l, TRUE) THEN "hidden" ELSE mStyle
    /\ mBefore' = IF LockSets(mHook, l, TRUE) /\ \A j \in LockInst : ~HoldsLock(mInst[j])
                  THEN mStyle ELSE mBefore
    /\ mOverlap' = (mOverlap \/ (/\ LockSets(mHook, l, TRUE)
                                 /\ \E j \in LockInst \ {i} : HoldsLock(mInst[j])))

LocksActivate(i) ==
    /\ LocksFrame
    /\ mInst[i].life = "init"
    /\ LocksEffect(i, mInst[i].lock, "mounted")
    /\ UNCHANGED <<mHook, mSheet, mChanges>>

\* A render of instance i with the other lock value: the cleanup ...
LocksChange(i) ==
    /\ LocksFrame
    /\ mInst[i].life = "mounted"
    /\ mInst[i].pc = "idle"
    /\ mChanges < MaxLocksChanges
    /\ mChanges' = mChanges + 1
    /\ mStyle' = LockCleanup(mInst[i].cleanup, mStyle)
    /\ mInst' = [mInst EXCEPT ![i].lock = ~mInst[i].lock, ![i].pc = "effect",
                              ![i].cleanup = NoLockCleanup]
    /\ UNCHANGED <<mHook, mSheet, mBefore, mOverlap>>

\* ... then the effect.
LocksRerun(i) ==
    /\ LocksFrame
    /\ mInst[i].pc = "effect"
    /\ LocksEffect(i, mInst[i].lock, "mounted")
    /\ UNCHANGED <<mHook, mSheet, mChanges>>

LocksUnmount(i) ==
    /\ LocksFrame
    /\ mInst[i].life = "mounted"
    /\ mInst[i].pc = "idle"
    /\ mStyle' = LockCleanup(mInst[i].cleanup, mStyle)
    /\ mInst' = [mInst EXCEPT ![i].life = "unmounted", ![i].cleanup = NoLockCleanup]
    /\ UNCHANGED <<mHook, mSheet, mBefore, mOverlap, mChanges>>

InitLocksVars ==
    /\ mHook \in LockHooks
    /\ mInst \in [LockInst -> {[life |-> "init", pc |-> "idle", lock |-> l,
                                cleanup |-> NoLockCleanup] : l \in BOOLEAN}]
    /\ mStyle \in InlineOverflows
    /\ mSheet \in SheetOverflows
    /\ mBefore = mStyle
    /\ mOverlap = FALSE
    /\ mChanges = 0

NextLocks ==
    \/ \E i \in LockInst : LocksActivate(i)
    \/ \E i \in LockInst : LocksChange(i)
    \/ \E i \in LockInst : LocksRerun(i)
    \/ \E i \in LockInst : LocksUnmount(i)

(***************************************************************************)
(*                             useHoverIntent                              *)
(* The platform fires a timeout when the clock reaches its due time.       *)
(***************************************************************************)
\* setTimeout(..., 100)
HoverIntentDelay == 100

\* The clock advances in steps of half the delay.
HoverClockStep == HoverIntentDelay \div 2

\* clearTimeout(id)
HoverClearTimeout(ts, id) == {t \in ts : t.id # id}
\* useEffect(() => { const node = ref.current; if (!node) return; ... }, [])
HoverIntentActivate ==
    /\ HoverIntentFrame
    /\ hiLife = "init"
    /\ hiLife' = "mounted"
    /\ hiListening' = hiNode
    /\ UNCHANGED <<hiNode, hiInside, hiNow, hiTimers, hiTimeout, hiNextId, isHovering,
                   hiPendingAtUnmount, hiLateSet, hiEvents>>

\* handleMouseEnter: timeout = setTimeout(() => setIsHovering(true), 100)
HandleMouseEnter ==
    /\ HoverIntentFrame
    /\ hiListening
    /\ ~hiInside
    /\ hiEvents < MaxHoverEvents
    /\ hiEvents' = hiEvents + 1
    /\ hiInside' = TRUE
    /\ hiTimers' = hiTimers \cup {[id |-> hiNextId, due |-> hiNow + HoverIntentDelay]}
    /\ hiTimeout' = hiNextId
    /\ hiNextId' = hiNextId + 1
    /\ UNCHANGED <<hiLife, hiNode, hiListening, hiNow, isHovering, hiPendingAtUnmount,
                   hiLateSet>>

\* handleMouseLeave: clearTimeout(timeout); setIsHovering(false)
HandleMouseLeave ==
    /\ HoverIntentFrame
    /\ hiListening
    /\ hiInside
    /\ hiEvents < MaxHoverEvents
    /\ hiEvents' = hiEvents + 1
    /\ hiInside' = FALSE
    /\ hiTimers' = HoverClearTimeout(hiTimers, hiTimeout)
    /\ isHovering' = FALSE
    /\ UNCHANGED <<hiLife, hiNode, hiListening, hiNow, hiTimeout, hiNextId,
                   hiPendingAtUnmount, hiLateSet>>

\* The platform fires a pending timeout: () => setIsHovering(true)
HoverIntentFire(t) ==
    /\ HoverIntentFrame
    /\ t \in hiTimers
    /\ t.due <= hiNow
    /\ hiTimers' = hiTimers \ {t}
    /\ isHovering' = TRUE
    /\ hiLateSet' = (hiLateSet \/ (hiLife = "unmounted" /\ t \in hiPendingAtUnmount))
    /\ UNCHANGED <<hiLife, hiNode, hiListening, hiInside, hiNow, hiTimeout, hiNextId,
                   hiPendingAtUnmount, hiEvents>>

\* The cleanup: the two listeners are removed.
HoverIntentUnmount ==
    /\ HoverIntentFrame
    /\ hiLife = "mounted"
    /\ hiLife' = "unmounted"
    /\ hiListening' = FALSE
    /\ hiPendingAtUnmount' = hiTimers
    /\ UNCHANGED <<hiNode, hiInside, hiNow, hiTimers, hiTimeout, hiNextId, isHovering,
                   hiLateSet, hiEvents>>

\* Time passes, up to the next due time.
HoverIntentTick ==
    /\ HoverIntentFrame
    /\ hiLife # "init"
    /\ hiNow + HoverClockStep <= MaxHoverTime
    /\ \A t \in hiTimers : t.due > hiNow
    /\ hiNow' = hiNow + HoverClockStep
    /\ UNCHANGED <<hiLife, hiNode, hiListening, hiInside, hiTimers, hiTimeout,
                   hiNextId, isHovering, hiPendingAtUnmount, hiLateSet, hiEvents>>

InitHoverIntentVars ==
    /\ hiLife = "init"
    /\ hiNode \in BOOLEAN
    /\ hiListening = FALSE
    /\ hiInside = FALSE
    /\ hiNow = 0
    /\ hiTimers = {}
    /\ hiTimeout = NoTimer
    /\ hiNextId = 1
    /\ isHovering = FALSE
    /\ hiPendingAtUnmount = {}
    /\ hiLateSet = FALSE
    /\ hiEvents = 0

NextHoverIntent ==
    \/ HoverIntentActivate
    \/ HandleMouseEnter
    \/ HandleMouseLeave
    \/ \E t \in hiTimers : HoverIntentFire(t)
    \/ HoverIntentUnmount
    \/ HoverIntentTick

(***************************************************************************)
(*                          useDebouncedCallback                           *)
(* The hook calls useTimeoutFn(callback, delay) and returns a function     *)
(* that calls its clear() and then its reset().  The instance is the       *)
(* useTimeoutFn instance above (its effect, its timeoutRef, its timeouts), *)
(* with a delay that is a number.                                          *)
(***************************************************************************)
\* debouncedCallback: clear(); reset();
DebouncedCallback(ts, ref, d, cb, id) ==
    TimeoutFnReset(TimeoutFnClear(ts, ref), ref, d, cb, id)

\* The consumer calls the debounced function.
DebouncedCall ==
    /\ DebouncedFrame
    /\ tHook = "useTimeoutFn"
    /\ tLife = "mounted"
    /\ tPc = "idle"
    /\ changes < MaxChanges
    /\ changes' = changes + 1
    /\ dCalls' = dCalls + 1
    /\ timers' = DebouncedCallback(timers, handle, delay, value, nextId)
    /\ handle' = nextId
    /\ nextId' = nextId + 1
    /\ lastChange' = now
    /\ UNCHANGED <<tHook, tLife, tPc, now, value, delay, debouncedValue, calls,
                   burst, commits, lastCommitAt>>

InitDebouncedVars ==
    /\ tHook = "useTimeoutFn"
    /\ tLife = "init"
    /\ tPc = "idle"
    /\ now = 0
    /\ timers = {}
    /\ nextId = 1
    /\ value \in Values
    /\ delay \in Delays
    /\ handle = NoTimer
    /\ debouncedValue = value
    /\ calls = 0
    /\ lastChange = 0
    /\ burst = 0
    /\ commits = 0
    /\ lastCommitAt = 0
    /\ changes = 0
    /\ dCalls = 0

NextDebounced ==
    \/ TimeoutFnActivate
    \/ \E cb \in Values, d \in Delays : TimeoutFnChange(cb, d)
    \/ TimeoutFnRerun
    \/ DebouncedCall
    \/ \E t \in timers : TimeoutFnFire(t)
    \/ TimeoutFnUnmount
    \/ Tick

(***************************************************************************)
(*  DOM observers: useElementSize, useResizeObserver,                      *)
(*                 useIntersectionObserver, useHover                       *)
(* An effect run creates an observer (useHover: two listeners) and, if the *)
(* bound element is not null, observes it.  useElementSize keeps the       *)
(* element in a state cell set by a callback ref; the others read the      *)
(* current property of a ref object, whose change causes no render.        *)
(***************************************************************************)
ObserveHooks == {"useElementSize", "useResizeObserver", "useIntersectionObserver",
                 "useHover"}
NoElement == 0
ObsElements == 1 .. MaxObsElements

\* Whether a change of the bound element is a change of the effect's
\* dependencies: [ref, handleSize] with ref the element (useElementSize);
\* [ref] and [ref, root, rootMargin, threshold] with ref the ref object; [].
RebindReruns(h) == h = "useElementSize"

\* Whether a render can change the effect's dependencies at all.
HasDeps(h) == h # "useHover"

\* if (ref.current) observer.observe(ref.current), and the like.
ObserveSetup(obs, run, el) ==
    IF el # NoElement THEN obs \cup {[run |-> run, el |-> el]} ELSE obs

\* The cleanup of effect run `run`, which captured `cap`, when the bound
\* element is `cur`.
\*   useElementSize: resizeObserver.disconnect()
\*   useResizeObserver: if (ref.current) observer.unobserve(ref.current)
\*   useIntersectionObserver: if (current) observer.unobserve(current)
\*   useHover: node.removeEventListener x2 (no cleanup when node was null)
ObserveCleanup(h, obs, run, cap, cur) ==
    CASE h = "useElementSize" -> {o \in obs : o.run # run}
      [] h = "useResizeObserver" -> obs \ {[run |-> run, el |-> cur]}
      [] OTHER -> obs \ {[run |-> run, el |-> cap]}

\* The effect body.
ObserveEffect ==
    /\ oRun' = oRun + 1
    /\ oCaptured' = oRef
    /\ oObserved' = ObserveSetup(oObserved, oRun + 1, oRef)

ObserveActivate ==
    /\ ObserveFrame
    /\ oLife = "init"
    /\ oLife' = "mounted"
    /\ oPc' = "idle"
    /\ ObserveEffect
    /\ UNCHANGED <<oHook, oRef, oChanges>>

\* The bound element changes (another element, or none).  Where that is a
\* change of the dependencies the cleanup runs, then the effect.
ObserveRebind(e) ==
    /\ ObserveFrame
    /\ oLife = "mounted"
    /\ oPc = "idle"
    /\ e # oRef
    /\ oChanges < MaxObserveChanges
    /\ oChanges' = oChanges + 1
    /\ oRef' = e
    /\ IF RebindReruns(oHook)
       THEN /\ oObserved' = ObserveCleanup(oHook, oObserved, oRun, oCaptured, oRef)
            /\ oPc' = "effect"
       ELSE UNCHANGED <<oObserved, oPc>>
    /\ UNCHANGED <<oHook, oLife, oRun, oCaptured>>

\* A render that changes a dependency other than the element (another ref
\* object bound to the same element, other observer options, a new
\* handleSize): the cleanup ...
ObserveDepsChange ==
    /\ ObserveFrame
    /\ HasDeps(oHook)
    /\ oLife = "mounted"
    /\ oPc = "idle"
    /\ oChanges < MaxObserveChanges
    /\ oChanges' = oChanges + 1
    /\ oObserved' = ObserveCleanup(oHook, oObserved, oRun, oCaptured, oRef)
    /\ oPc' = "effect"
    /\ UNCHANGED <<oHook, oLife, oRef, oRun, oCaptured>>

\* ... then the effect.
ObserveRerun ==
    /\ ObserveFrame
    /\ oPc = "effect"
    /\ oPc' = "idle"
    /\ ObserveEffect
    /\ UNCHANGED <<oHook, oLife, oRef, oChanges>>

ObserveUnmount ==
    /\ ObserveFrame
    /\ oLife = "mounted"
    /\ oPc = "idle"
    /\ oLife' = "unmounted"
    /\ oObserved' = ObserveCleanup(oHook, oObserved, oRun, oCaptured, oRef)
    /\ UNCHANGED <<oHook, oPc, oRef, oRun, oCaptured, oChanges>>

InitObserveVars ==
    /\ oHook \in ObserveHooks
    /\ oLife = "init"
    /\ oPc = "idle"
    /\ oRef \in {NoElement} \cup ObsElements
    /\ oRun = 0
    /\ oCaptured = NoElement
    /\ oObserved = {}
    /\ oChanges = 0

NextObserve ==
    \/ ObserveActivate
    \/ \E e \in {NoElement} \cup ObsElements : ObserveRebind(e)
    \/ ObserveDepsChange
    \/ ObserveRerun
    \/ ObserveUnmount

(***************************************************************************)
(*                               useDarkMode                               *)
(* toggleDarkMode is recreated by every render and reads the isDarkMode of *)
(* the render that created it; the host may run several calls before it    *)
(* renders again, so the render is a step of its own.                      *)
(***************************************************************************)
\* classList.toggle(token, force): the token is present afterwards iff force.
ClassListToggle(has, force) == force

\* setIsDarkMode((prevMode) => !prevMode)
ToggledMode(prevMode) == ~prevMode

\* The effect at mount: mediaQuery.addEventListener('change', handleChange)
DarkModeActivate ==
    /\ DarkModeFrame
    /\ dmLife = "init"
    /\ dmLife' = "mounted"
    /\ dmListening' = TRUE
    /\ UNCHANGED <<dmPrefers, isDarkMode, dmSeen, dmClass, dmToggles, dmOps>>

\* toggleDarkMode
ToggleDarkMode ==
    /\ DarkModeFrame
    /\ dmLife = "mounted"
    /\ dmOps < MaxDarkModeOps
    /\ dmOps' = dmOps + 1
    /\ dmToggles' = dmToggles + 1
    /\ isDarkMode' = ToggledMode(isDarkMode)
    /\ dmClass' = ClassListToggle(dmClass, ~dmSeen)
    /\ UNCHANGED <<dmLife, dmPrefers, dmSeen, dmListening>>

\* The render that follows a state change.
DarkModeRender ==
    /\ DarkModeFrame
    /\ dmLife = "mounted"
    /\ dmSeen # isDarkMode
    /\ dmSeen' = isDarkMode
    /\ UNCHANGED <<dmLife, dmPrefers, isDarkMode, dmClass, dmListening, dmToggles,
                   dmOps>>

\* The OS colour scheme changes: handleChange = (e) => setIsDarkMode(e.matches)
SchemeChange ==
    /\ DarkModeFrame
    /\ dmOps < MaxDarkModeOps
    /\ dmOps' = dmOps + 1
    /\ dmPrefers' = ~dmPrefers
    /\ isDarkMode' = IF dmListening THEN dmPrefers' ELSE isDarkMode
    /\ UNCHANGED <<dmLife, dmSeen, dmClass, dmListening, dmToggles>>

\* The cleanup: mediaQuery.removeEventListener('change', handleChange)
DarkModeUnmount ==
    /\ DarkModeFrame
    /\ dmLife = "mounted"
    /\ dmLife' = "unmounted"
    /\ dmListening' = FALSE
    /\ UNCHANGED <<dmPrefers, isDarkMode, dmSeen, dmClass, dmToggles, dmOps>>

\* The first render: useState(() => matchMedia(...).matches)
InitDarkModeVars ==
    /\ dmLife = "init"
    /\ dmPrefers \in BOOLEAN
    /\ isDarkMode = dmPrefers
    /\ dmSeen = dmPrefers
    /\ dmClass \in BOOLEAN
    /\ dmListening = FALSE
    /\ dmToggles = 0
    /\ dmOps = 0

NextDarkMode ==
    \/ DarkModeActivate
    \/ ToggleDarkMode
    \/ DarkModeRender
    \/ SchemeChange
    \/ DarkModeUnmount

(***************************************************************************)
(*                               useClipboard                              *)
(* The platform fires a timeout when the clock reaches its due time.       *)
(***************************************************************************)
\* setTimeout(() => setCopied(false), 2000)
ClipboardResetDelay == 2000
NoCopy == -1

\* The clock advances in steps of half the delay.
ClipboardClockStep == ClipboardResetDelay \div 2

\* copyToClipboard up to its await.
CopyToClipboard ==
    /\ ClipboardFrame
    /\ cbOps < MaxCopies
    /\ cbOps' = cbOps + 1
    /\ cbWrites' = cbWrites + 1
    /\ UNCHANGED <<cbNow, copied, cbTimers, cbNextId, cbLastCopy>>

\* writeText resolves: setCopied(true); setTimeout(() => setCopied(false), 2000)
WriteTextResolves ==
    /\ ClipboardFrame
    /\ cbWrites > 0
    /\ cbWrites' = cbWrites - 1
    /\ copied' = TRUE
    /\ cbTimers' = cbTimers \cup {[id |-> cbNextId, due |-> cbNow + ClipboardResetDelay]}
    /\ cbNextId' = cbNextId + 1
    /\ cbLastCopy' = cbNow
    /\ UNCHANGED <<cbNow, cbOps>>

\* writeText rejects: the catch block logs.
WriteTextRejects ==
    /\ ClipboardFrame
    /\ cbWrites > 0
    /\ cbWrites' = cbWrites - 1
    /\ UNCHANGED <<cbNow, copied, cbTimers, cbNextId, cbLastCopy, cbOps>>

\* A timeout is due: () => setCopied(false)
ClipboardFire(t) ==
    /\ ClipboardFrame
    /\ t \in cbTimers
    /\ t.due <= cbNow
    /\ cbTimers' = cbTimers \ {t}
    /\ copied' = FALSE
    /\ UNCHANGED <<cbNow, cbWrites, cbNextId, cbLastCopy, cbOps>>

\* Time passes, up to the next due time.
ClipboardTick ==
    /\ ClipboardFrame
    /\ cbNow + ClipboardClockStep <= MaxClipboardTime
    /\ \A t \in cbTimers : t.due > cbNow
    /\ cbNow' = cbNow + ClipboardClockStep
    /\ UNCHANGED <<copied, cbWrites, cbTimers, cbNextId, cbLastCopy, cbOps>>

InitClipboardVars ==
    /\ cbNow = 0
    /\ copied = FALSE
    /\ cbWrites = 0
    /\ cbTimers = {}
    /\ cbNextId = 1
    /\ cbLastCopy = NoCopy
    /\ cbOps = 0

NextClipboard ==
    \/ CopyToClipboard
    \/ WriteTextResolves
    \/ WriteTextRejects
    \/ \E t \in cbTimers : ClipboardFire(t)
    \/ ClipboardTick

(***************************************************************************)
(*                                useCountUp                               *)
(* The effect ([target, duration]) registers an interval whose callback    *)
(* closes over the target, duration and count of the render the effect     *)
(* belongs to.  The platform runs a tick when the clock reaches its due    *)
(* time.                                                                   *)
(***************************************************************************)
\* setInterval(..., 1000)
CountUpPeriod == 1000
NoInterval == -1
Targets == {0, 2}
Durations == {CountUpPeriod, 2 * CountUpPeriod}

\* Math.min(target, (elapsed / duration) * target)
CountAt(t, d, elapsed) ==
    IF (elapsed * t) \div d < t THEN (elapsed * t) \div d ELSE t

\* if (count >= target) clearInterval(intervalId), with the closure's count
TickClears(seen, t) == seen >= t

\* The effect body.
CountUpEffect ==
    /\ startTime' = cuNow
    /\ cuInterval' = cuNow + CountUpPeriod
    /\ cuSeen' = count
    /\ cuTicks' = 0

CountUpActivate ==
    /\ CountUpFrame
    /\ cuLife = "init"
    /\ cuLife' = "mounted"
    /\ CountUpEffect
    /\ UNCHANGED <<cuPc, target, duration, count, cuNow, cuChanges>>

\* A tick of the interval.
CountUpTick ==
    /\ CountUpFrame
    /\ cuPc = "idle"
    /\ cuInterval # NoInterval
    /\ cuInterval <= cuNow
    /\ count' = CountAt(target, duration, cuNow - startTime)
    /\ cuInterval' = IF TickClears(cuSeen, target) THEN NoInterval
                     ELSE cuInterval + CountUpPeriod
    /\ cuTicks' = cuTicks + 1
    /\ UNCHANGED <<cuLife, cuPc, target, duration, cuNow, startTime, cuSeen,
                   cuChanges>>

\* A render with another target or duration: the cleanup
\* (clearInterval) ...
CountUpChange(t, d) ==
    /\ CountUpFrame
    /\ cuLife = "mounted"
    /\ cuPc = "idle"
    /\ <<t, d>> # <<target, duration>>
    /\ cuChanges < MaxCountChanges
    /\ cuChanges' = cuChanges + 1
    /\ target' = t
    /\ duration' = d
    /\ cuInterval' = NoInterval
    /\ cuPc' = "effect"
    /\ UNCHANGED <<cuLife, count, cuNow, startTime, cuSeen, cuTicks>>

\* ... then the effect.
CountUpRerun ==
    /\ CountUpFrame
    /\ cuPc = "effect"
    /\ cuPc' = "idle"
    /\ CountUpEffect
    /\ UNCHANGED <<cuLife, target, duration, count, cuNow, cuChanges>>

\* The cleanup at unmount: clearInterval(intervalId)
CountUpUnmount ==
    /\ CountUpFrame
    /\ cuLife = "mounted"
    /\ cuPc = "idle"
    /\ cuLife' = "unmounted"
    /\ cuInterval' = NoInterval
    /\ UNCHANGED <<cuPc, target, duration, count, cuNow, startTime, cuSeen,
                   cuTicks, cuChanges>>

\* Time passes, up to the next due time.
CountUpClock ==
    /\ CountUpFrame
    /\ cuPc = "idle"
    /\ cuNow + CountUpPeriod <= MaxCountTime
    /\ (cuInterval = NoInterval \/ cuInterval > cuNow)
    /\ cuNow' = cuNow + CountUpPeriod
    /\ UNCHANGED <<cuLife, cuPc, target, duration, count, startTime, cuSeen,
                   cuInterval, cuTicks, cuChanges>>

InitCountUpVars ==
    /\ cuLife = "init"
    /\ cuPc = "idle"
    /\ target \in Targets
    /\ duration \in Durations
    /\ count = 0
    /\ cuNow = 0
    /\ startTime = 0
    /\ cuSeen = 0
    /\ cuInterval = NoInterval
    /\ cuTicks = 0
    /\ cuChanges = 0

NextCountUp ==
    \/ CountUpActivate
    \/ CountUpTick
    \/ \E t \in Targets, d \in Durations : CountUpChange(t, d)
    \/ CountUpRerun
    \/ CountUpUnmount
    \/ CountUpClock

(***************************************************************************)
(*                                 useCookie                               *)
(* Strings are sequences of characters.  document.cookie is the rows       *)
(* name=value of the document's cookies joined by '; '.                    *)
(***************************************************************************)
CookieNames == {<<"a">>, <<"a", "b">>, <<"b">>}
CookieValues == {<<"x">>, <<"y">>}
NullCookie == [isNull |-> TRUE, val |-> <<>>]
SomeCookie(v) == [isNull |-> FALSE, val |-> v]

\* The jars the document can hold: no two cookies of one name.
Jars ==
    {j \in UNION {[1 .. n -> [name : CookieNames, value : CookieValues]] :
                     n \in 0 .. MaxCookies} :
        \A i, k \in DOMAIN j : (i # k) => (j[i].name # j[k].name)}

\* One row of document.cookie.split('; ')
CookieRow(c) == c.name \o <<"=">> \o c.value

\* row.startsWith(key)
StartsWith(row, key) ==
    /\ Len(key) <= Len(row)
    /\ SubSeq(row, 1, Len(key)) = key

\* rows.find((row) => row.startsWith(key)): the index of the first such row, 0 if none
FindRow(j, key) ==
    IF \E i \in DOMAIN j : StartsWith(CookieRow(j[i]), key)
    THEN CHOOSE i \in DOMAIN j :
            /\ StartsWith(CookieRow(j[i]), key)
            /\ \A k \in 1 .. (i - 1) : ~StartsWith(CookieRow(j[k]), key)
    ELSE 0

\* The position of the first '=' of s at or after position p, Len(s) + 1 if none.
RECURSIVE NextEquals(_, _)
NextEquals(s, p) ==
    IF p > Len(s) THEN Len(s) + 1
    ELSE IF s[p] = "=" THEN p
    ELSE NextEquals(s, p + 1)

\* row.split('=')[1]: the text between the first '=' and the next one
\* (hasField is false for undefined: the row holds no '=').
SecondField(row) ==
    LET p == NextEquals(row, 1) IN
    IF p > Len(row) THEN [hasField |-> FALSE, text |-> <<>>]
    ELSE [hasField |-> TRUE, text |-> SubSeq(row, p + 1, NextEquals(row, p + 1) - 1)]

\* document.cookie.split('; ').find(...)?.split('=')[1] || null
ReadCookie(j, key) ==
    LET i == FindRow(j, key) IN
    IF i = 0 THEN NullCookie
    ELSE LET f == SecondField(CookieRow(j[i])) IN
         IF f.hasField /\ f.text # <<>> THEN SomeCookie(f.text) ELSE NullCookie

\* document.cookie = `${key}=${value}; ...`: the cookie of that name is
\* replaced, or a new one is added after the others.
JarSet(j, key, v) ==
    IF \E i \in DOMAIN j : j[i].name = key
    THEN [i \in DOMAIN j |-> IF j[i].name = key THEN [name |-> key, value |-> v]
                             ELSE j[i]]
    ELSE Append(j, [name |-> key, value |-> v])

\* document.cookie = `${key}=; Max-Age=0`: the cookie of that name is removed.
JarDelete(j, key) == SelectSeq(j, LAMBDA c : c.name # key)

\* The first render: the useState initializer.
CookieRender ==
    /\ CookieFrame
    /\ ckLife = "init"
    /\ ckLife' = "mounted"
    /\ cookie' = ReadCookie(jar, ckKey)
    /\ ckInitial' = cookie'
    /\ ckJarThen' = jar
    /\ UNCHANGED <<ckKey, jar, ckOps>>

\* setCookie(value)
SetCookie(v) ==
    /\ CookieFrame
    /\ ckLife = "mounted"
    /\ ckOps < MaxCookieOps
    /\ ckOps' = ckOps + 1
    /\ jar' = JarSet(jar, ckKey, v)
    /\ cookie' = SomeCookie(v)
    /\ UNCHANGED <<ckLife, ckKey, ckInitial, ckJarThen>>

\* deleteCookie()
DeleteCookie ==
    /\ CookieFrame
    /\ ckLife = "mounted"
    /\ ckOps < MaxCookieOps
    /\ ckOps' = ckOps + 1
    /\ jar' = JarDelete(jar, ckKey)
    /\ cookie' = NullCookie
    /\ UNCHANGED <<ckLife, ckKey, ckInitial, ckJarThen>>

InitCookieVars ==
    /\ ckLife = "init"
    /\ ckKey \in CookieNames
    /\ jar \in Jars
    /\ cookie = NullCookie
    /\ ckInitial = NullCookie
    /\ ckJarThen = <<>>
    /\ ckOps = 0

NextCookie ==
    \/ CookieRender
    \/ \E v \in CookieValues : SetCookie(v)
    \/ DeleteCookie

\* The variables of a family no instance of which is running.
FetchAtRest ==
    /\ fHook = "useFetch"
    /\ fLife = "unmounted"
    /\ url = "A"
    /\ retries = 0
    /\ immediate = FALSE
    /\ state = FetchInitialState
    /\ runs = <<>>
    /\ writer = 0

TimerAtRest ==
    /\ tHook = "useDebounce"
    /\ tLife = "unmounted"
    /\ tPc = "idle"
    /\ now = MaxTime
    /\ timers = {}
    /\ nextId = 1
    /\ value = "a"
    /\ delay = 0
    /\ handle = NoTimer
    /\ debouncedValue = "a"
    /\ calls = 0
    /\ lastChange = 0
    /\ burst = 0
    /\ commits = 0
    /\ lastCommitAt = 0
    /\ changes = 0

ListenAtRest ==
    /\ lHook = "useOnlineStatus"
    /\ lLife = "unmounted"
    /\ lPc = "idle"
    /\ lReady = TRUE
    /\ lParam = "p"
    /\ refCurrent = 0
    /\ listeners = {}
    /\ before = {}
    /\ lEff = NoCleanup
    /\ lGen = 0
    /\ lValue = FALSE
    /\ lError = Null
    /\ delivered = FALSE

ScriptAtRest ==
    /\ cachedScriptStatuses = [s \in Srcs |-> Null]
    /\ scripts = <<>>
    /\ inst = [i \in Inst |-> [NoInstance EXCEPT !.life = "unmounted"]]
    /\ sRenders = 0

StorageAtRest ==
    /\ gHook = "useLocalStorage"
    /\ gReady = TRUE
    /\ full = FALSE
    /\ store = [k \in Keys |-> Missing]
    /\ sInst = [i \in SInst |-> [NoStorageInstance EXCEPT !.life = "unmounted"]]
    /\ written = [k \in Keys |-> NoVal]
    /\ gOps = 0

PairAtRest ==
    /\ pLife = "unmounted"
    /\ pPc = "idle"
    /\ pNow = MaxPairTime
    /\ pValue = "a"
    /\ pDelay = 0
    /\ pTimers = [h \in PairHooks |-> {}]
    /\ pHandler = [h \in PairHooks |-> NoTimer]
    /\ pState = [h \in PairHooks |-> "a"]
    /\ pNextId = 1
    /\ pLog = [h \in PairHooks |-> <<>>]
    /\ pLastChange = 0
    /\ pSuperseded = [h \in PairHooks |-> 0]
    /\ pChanges = 0

DragAtRest ==
    /\ ddState = DragInitialState
    /\ ddSeen = Null
    /\ transfer = NoDrag
    /\ onDrop = "f"
    /\ dropCalls = <<>>
    /\ ddLast = [type |-> "none", dropId |-> Null, payload |-> NoDrag,
                 cb |-> "f", wasOver |-> Null]
    /\ ddDrops = 0
    /\ ddEvents = MaxDragEvents

LockAtRest ==
    /\ kHook = "useScrollLock"
    /\ kLife = "unmounted"
    /\ kPc = "idle"
    /\ kDocument = TRUE
    /\ lock = FALSE
    /\ styleOverflow = ""
    /\ sheetOverflow = "visible"
    /\ kCleanup = NoLockCleanup
    /\ kBefore = ""
    /\ kLocked = FALSE
    /\ kChanges = 0

IntervalAtRest ==
    /\ iHook = "useInterval"
    /\ iLife = "unmounted"
    /\ iPc = "idle"
    /\ callback = "f"
    /\ iDelay = NullDelay
    /\ iPending = [cb |-> FALSE, delay |-> FALSE]
    /\ savedCallback = Null
    /\ iTimers = {}
    /\ iId = NoTimer
    /\ iNextId = 1
    /\ iRegs = 0
    /\ iCancels = 0
    /\ iDelayRuns = 0
    /\ iDelayChanges = 0
    /\ iStale = FALSE
    /\ invoked = <<>>
    /\ iChanges = 0

BatteryAtRest ==
    /\ bReady = TRUE
    /\ bGetBattery = TRUE
    /\ bLife = "unmounted"
    /\ bPromise = "none"
    /\ battery = FALSE
    /\ bListeners = {}
    /\ bBefore = {}
    /\ bLevel = "r1"
    /\ batteryState = BatteryInitialState
    /\ bLate = FALSE
    /\ bEvents = MaxBatteryEvents

AxiosAtRest ==
    /\ aLife = "unmounted"
    /\ cancelled = FALSE
    /\ aData = Null
    /\ aError = Null
    /\ aLoading = FALSE
    /\ requests = <<>>
    /\ aOps = 0

LocksAtRest ==
    /\ mHook = "useScrollLock"
    /\ mInst = [i \in LockInst |-> [life |-> "unmounted", pc |-> "idle",
                                    lock |-> FALSE, cleanup |-> NoLockCleanup]]
    /\ mStyle = ""
    /\ mSheet = "visible"
    /\ mBefore = ""
    /\ mOverlap = FALSE
    /\ mChanges = 0

HoverIntentAtRest ==
    /\ hiLife = "unmounted"
    /\ hiNode = FALSE
    /\ hiListening = FALSE
    /\ hiInside = FALSE
    /\ hiNow = 0
    /\ hiTimers = {}
    /\ hiTimeout = NoTimer
    /\ hiNextId = 1
    /\ isHovering = FALSE
    /\ hiPendingAtUnmount = {}
    /\ hiLateSet = FALSE
    /\ hiEvents = 0

DebouncedAtRest == dCalls = 0

ObserveAtRest ==
    /\ oHook = "useHover"
    /\ oLife = "unmounted"
    /\ oPc = "idle"
    /\ oRef = 0
    /\ oRun = 0
    /\ oCaptured = 0
    /\ oObserved = {}
    /\ oChanges = 0

DarkModeAtRest ==
    /\ dmLife = "unmounted"
    /\ dmPrefers = FALSE
    /\ isDarkMode = FALSE
    /\ dmSeen = FALSE
    /\ dmClass = FALSE
    /\ dmListening = FALSE
    /\ dmToggles = 0
    /\ dmOps = MaxDarkModeOps

ClipboardAtRest ==
    /\ cbNow = 0
    /\ copied = FALSE
    /\ cbWrites = 0
    /\ cbTimers = {}
    /\ cbNextId = 1
    /\ cbLastCopy = -1
    /\ cbOps = 0

CountUpAtRest ==
    /\ cuLife = "unmounted"
    /\ cuPc = "idle"
    /\ target = 0
    /\ duration = CountUpPeriod
    /\ count = 0
    /\ cuNow = 0
    /\ startTime = 0
    /\ cuSeen = 0
    /\ cuInterval = NoInterval
    /\ cuTicks = 0
    /\ cuChanges = 0

CookieAtRest ==
    /\ ckLife = "mounted"
    /\ ckKey = <<"a">>
    /\ jar = <<>>
    /\ cookie = NullCookie
    /\ ckInitial = NullCookie
    /\ ckJarThen = <<>>
    /\ ckOps = MaxCookieOps

vars == <<fetchVars, timerVars, listenVars, scriptVars, storageVars, pairVars,
          dragVars, lockVars, intervalVars, batteryVars, axiosVars,
          locksVars,
          hoverIntentVars,
          debouncedVars,
          observeVars,
          darkModeVars,
          clipboardVars,
          countUpVars,
          cookieVars>>

\* The families added to the five above are at rest in their specifications.
OthersAtRest ==
    PairAtRest /\ DragAtRest /\ LockAtRest /\ IntervalAtRest /\ BatteryAtRest
    /\ AxiosAtRest

\* The first five families at rest.
FirstAtRest ==
    FetchAtRest /\ TimerAtRest /\ ListenAtRest /\ ScriptAtRest /\ StorageAtRest

InitFetch == InitFetchVars /\ TimerAtRest /\ ListenAtRest /\ ScriptAtRest /\ StorageAtRest
    /\ OthersAtRest
    /\ LocksAtRest
    /\ HoverIntentAtRest
    /\ DebouncedAtRest
    /\ ObserveAtRest
    /\ DarkModeAtRest
    /\ ClipboardAtRest
    /\ CountUpAtRest
    /\ CookieAtRest
SpecFetch == InitFetch /\ [][NextFetch]_vars

InitTimer == InitTimerVars /\ FetchAtRest /\ ListenAtRest /\ ScriptAtRest /\ StorageAtRest
    /\ OthersAtRest
    /\ LocksAtRest
    /\ HoverIntentAtRest
    /\ DebouncedAtRest
    /\ ObserveAtRest
    /\ DarkModeAtRest
    /\ ClipboardAtRest
    /\ CountUpAtRest
    /\ CookieAtRest
SpecTimer == InitTimer /\ [][NextTimer]_vars

InitListen == InitListenVars /\ FetchAtRest /\ TimerAtRest /\ ScriptAtRest /\ StorageAtRest
    /\ OthersAtRest
    /\ LocksAtRest
    /\ HoverIntentAtRest
    /\ DebouncedAtRest
    /\ ObserveAtRest
    /\ DarkModeAtRest
    /\ ClipboardAtRest
    /\ CountUpAtRest
    /\ CookieAtRest
SpecListen == InitListen /\ [][NextListen]_vars

InitScript == InitScriptVars /\ FetchAtRest /\ TimerAtRest /\ ListenAtRest /\ StorageAtRest
    /\ OthersAtRest
    /\ LocksAtRest
    /\ HoverIntentAtRest
    /\ DebouncedAtRest
    /\ ObserveAtRest
    /\ DarkModeAtRest
    /\ ClipboardAtRest
    /\ CountUpAtRest
    /\ CookieAtRest
SpecScript == InitScript /\ [][NextScript]_vars

InitStorage == InitStorageVars /\ FetchAtRest /\ TimerAtRest /\ ListenAtRest /\ ScriptAtRest
    /\ OthersAtRest
    /\ LocksAtRest
    /\ HoverIntentAtRest
    /\ DebouncedAtRest
    /\ ObserveAtRest
    /\ DarkModeAtRest
    /\ ClipboardAtRest
    /\ CountUpAtRest
    /\ CookieAtRest
SpecStorage == InitStorage /\ [][NextStorage]_vars

InitPair == InitPairVars /\ FirstAtRest /\ DragAtRest /\ LockAtRest /\ IntervalAtRest
    /\ BatteryAtRest /\ AxiosAtRest
    /\ LocksAtRest
    /\ HoverIntentAtRest
    /\ DebouncedAtRest
    /\ ObserveAtRest
    /\ DarkModeAtRest
    /\ ClipboardAtRest
    /\ CountUpAtRest
    /\ CookieAtRest
SpecPair == InitPair /\ [][NextPair]_vars

InitDrag == InitDragVars /\ FirstAtRest /\ PairAtRest /\ LockAtRest /\ IntervalAtRest
    /\ BatteryAtRest /\ AxiosAtRest
    /\ LocksAtRest
    /\ HoverIntentAtRest
    /\ DebouncedAtRest
    /\ ObserveAtRest
    /\ DarkModeAtRest
    /\ ClipboardAtRest
    /\ CountUpAtRest
    /\ CookieAtRest
SpecDrag == InitDrag /\ [][NextDrag]_vars

InitLock == InitLockVars /\ FirstAtRest /\ PairAtRest /\ DragAtRest /\ IntervalAtRest
    /\ BatteryAtRest /\ AxiosAtRest
    /\ LocksAtRest
    /\ HoverIntentAtRest
    /\ DebouncedAtRest
    /\ ObserveAtRest
    /\ DarkModeAtRest
    /\ ClipboardAtRest
    /\ CountUpAtRest
    /\ CookieAtRest
SpecLock == InitLock /\ [][NextLock]_vars

InitInterval == InitIntervalVars /\ FirstAtRest /\ PairAtRest /\ DragAtRest
    /\ LockAtRest /\ BatteryAtRest /\ AxiosAtRest
    /\ LocksAtRest
    /\ HoverIntentAtRest
    /\ DebouncedAtRest
    /\ ObserveAtRest
    /\ DarkModeAtRest
    /\ ClipboardAtRest
    /\ CountUpAtRest
    /\ CookieAtRest
SpecInterval == InitInterval /\ [][NextInterval]_vars

InitBattery == InitBatteryVars /\ FirstAtRest /\ PairAtRest /\ DragAtRest
    /\ LockAtRest /\ IntervalAtRest /\ AxiosAtRest
    /\ LocksAtRest
    /\ HoverIntentAtRest
    /\ DebouncedAtRest
    /\ ObserveAtRest
    /\ DarkModeAtRest
    /\ ClipboardAtRest
    /\ CountUpAtRest
    /\ CookieAtRest
SpecBattery == InitBattery /\ [][NextBattery]_vars

InitAxios == InitAxiosVars /\ FirstAtRest /\ PairAtRest /\ DragAtRest /\ LockAtRest
    /\ IntervalAtRest /\ BatteryAtRest
    /\ LocksAtRest
    /\ HoverIntentAtRest
    /\ DebouncedAtRest
    /\ ObserveAtRest
    /\ DarkModeAtRest
    /\ ClipboardAtRest
    /\ CountUpAtRest
    /\ CookieAtRest
SpecAxios == InitAxios /\ [][NextAxios]_vars

InitLocks == InitLocksVars /\ FirstAtRest /\ OthersAtRest
    /\ HoverIntentAtRest
    /\ DebouncedAtRest
    /\ ObserveAtRest
    /\ DarkModeAtRest
    /\ ClipboardAtRest
    /\ CountUpAtRest
    /\ CookieAtRest
SpecLocks == InitLocks /\ [][NextLocks]_vars

InitHoverIntent == InitHoverIntentVars /\ FirstAtRest /\ OthersAtRest
    /\ LocksAtRest
    /\ DebouncedAtRest
    /\ ObserveAtRest
    /\ DarkModeAtRest
    /\ ClipboardAtRest
    /\ CountUpAtRest
    /\ CookieAtRest
SpecHoverIntent == InitHoverIntent /\ [][NextHoverIntent]_vars

InitDebounced == InitDebouncedVars /\ FetchAtRest /\ ListenAtRest /\ ScriptAtRest
    /\ StorageAtRest /\ OthersAtRest
    /\ LocksAtRest
    /\ HoverIntentAtRest
    /\ ObserveAtRest
    /\ DarkModeAtRest
    /\ ClipboardAtRest
    /\ CountUpAtRest
    /\ CookieAtRest
SpecDebounced == InitDebounced /\ [][NextDebounced]_vars

InitObserve == InitObserveVars /\ FirstAtRest /\ OthersAtRest
    /\ LocksAtRest
    /\ HoverIntentAtRest
    /\ DebouncedAtRest
    /\ DarkModeAtRest
    /\ ClipboardAtRest
    /\ CountUpAtRest
    /\ CookieAtRest
SpecObserve == InitObserve /\ [][NextObserve]_vars

InitDarkMode == InitDarkModeVars /\ FirstAtRest /\ OthersAtRest
    /\ LocksAtRest
    /\ HoverIntentAtRest
    /\ DebouncedAtRest
    /\ ObserveAtRest
    /\ ClipboardAtRest
    /\ CountUpAtRest
    /\ CookieAtRest
SpecDarkMode == InitDarkMode /\ [][NextDarkMode]_vars

InitClipboard == InitClipboardVars /\ FirstAtRest /\ OthersAtRest
    /\ LocksAtRest
    /\ HoverIntentAtRest
    /\ DebouncedAtRest
    /\ ObserveAtRest
    /\ DarkModeAtRest
    /\ CountUpAtRest
    /\ CookieAtRest
SpecClipboard == InitClipboard /\ [][NextClipboard]_vars

InitCountUp == InitCountUpVars /\ FirstAtRest /\ OthersAtRest
    /\ LocksAtRest
    /\ HoverIntentAtRest
    /\ DebouncedAtRest
    /\ ObserveAtRest
    /\ DarkModeAtRest
    /\ ClipboardAtRest
    /\ CookieAtRest
SpecCountUp == InitCountUp /\ [][NextCountUp]_vars

InitCookie == InitCookieVars /\ FirstAtRest /\ OthersAtRest
    /\ LocksAtRest
    /\ HoverIntentAtRest
    /\ DebouncedAtRest
    /\ ObserveAtRest
    /\ DarkModeAtRest
    /\ ClipboardAtRest
    /\ CountUpAtRest
SpecCookie == InitCookie /\ [][NextCookie]_vars

(***************************************************************************)
(* C1.  useFetch, useFetchRetry, useAsync: once the adapter is unmounted,  *)
(* an operation that resolves or rejects leaves the state as it was: every *)
(* step taken after the unmount leaves the state cell unchanged.           *)
(***************************************************************************)
C1_LateResultDiscarded == [][fLife = "unmounted" => state' = state]_vars

(***************************************************************************)
(* C3.  useFetchRetry: a run that ended in success after k failed attempts *)
(* has k < retries, has issued exactly k + 1 requests and has committed    *)
(* once; while no other run has written since, the state is                *)
(* {data: the success value, error: null, loading: false}.                 *)
(***************************************************************************)
C3_RetrySuccess ==
    fHook = "useFetchRetry" =>
        \A i \in DOMAIN runs :
            runs[i].outcome = "success" =>
                /\ runs[i].attempts < retries
                /\ runs[i].fetches = runs[i].attempts + 1
                /\ runs[i].commits = 1
                /\ writer = i =>
                     state = [data |-> Data(runs[i].url), error |-> Null,
                              loading |-> FALSE]

C3_Witness ==
    /\ fHook = "useFetchRetry"
    /\ \E i \in DOMAIN runs :
         /\ runs[i].outcome = "success"
         /\ runs[i].attempts = 2
         /\ writer = i

(***************************************************************************)
(* C4 as claimed.  useFetchRetry, for every retries value: a run all of    *)
(* whose attempts failed has issued exactly `retries` requests and has     *)
(* left the state {data: null, error: last message, loading: false}.       *)
(***************************************************************************)
C4_ExhaustedAnyRetries ==
    fHook = "useFetchRetry" =>
        \A i \in DOMAIN runs :
            (runs[i].pc = "done" /\ runs[i].outcome # "success" /\ writer \in {0, i}) =>
                /\ runs[i].fetches = retries
                /\ state = [data |-> Null, error |-> runs[i].lastErr,
                            loading |-> FALSE]

(***************************************************************************)
(* C4 as amended.  The same for retries >= 1: exactly `retries` requests,  *)
(* then one commit, of the last failure's message, and the run has stopped *)
(* (the state holds that commit until another run writes).                 *)
(***************************************************************************)
C4_ExhaustedPositiveRetries ==
    (fHook = "useFetchRetry" /\ retries >= 1) =>
        \A i \in DOMAIN runs :
            (runs[i].pc = "done" /\ runs[i].outcome # "success") =>
                /\ runs[i].fetches = retries
                /\ runs[i].attempts = retries
                /\ runs[i].commits = 1
                /\ writer = i =>
                     state = [data |-> Null, error |-> runs[i].lastErr,
                              loading |-> FALSE]

C4_Witness ==
    /\ fHook = "useFetchRetry"
    /\ retries = 3
    /\ \E i \in DOMAIN runs :
         /\ runs[i].pc = "done"
         /\ runs[i].outcome = "failed"
         /\ runs[i].lastErr = "parse"
         /\ writer = i


(***************************************************************************)
(* C2.  useDebounce (useDebouncedValue, useDelay): after the last change   *)
(* of a burst at most one commit occurs; it carries the value of that last *)
(* change and happens no earlier than `delay` after it; and while the      *)
(* adapter is mounted the commit has occurred exactly when no timeout is   *)
(* pending any more (until then the one pending timeout is the one of the  *)
(* last change).                                                           *)
(***************************************************************************)
C2_DebounceBurst ==
    (tHook = "useDebounce" /\ tLife # "init") =>
        /\ commits <= 1
        /\ commits = 1 =>
             /\ debouncedValue = value
             /\ lastCommitAt >= lastChange + delay
        /\ (tLife = "mounted" /\ tPc = "idle") =>
             /\ commits = 1 <=> timers = {}
             /\ commits = 0 =>
                  timers = {[id |-> handle, due |-> lastChange + delay, arg |-> value]}
        /\ tLife = "unmounted" => timers = {}

C2_Witness ==
    /\ tHook = "useDebounce"
    /\ tLife = "mounted"
    /\ burst >= 2
    /\ delay = 2
    /\ commits = 1
    /\ debouncedValue = value
    /\ lastCommitAt > lastChange + delay

(***************************************************************************)
(* C10.  useDebounce (useThrottle has the same body) and useTimeoutFn: in  *)
(* every reachable state at most one platform timeout is pending, and when *)
(* a new one is about to be scheduled on a value/delay change the previous *)
(* one is already cancelled.                                               *)
(***************************************************************************)
C10_OnePendingTimer ==
    /\ Cardinality(timers) <= 1
    /\ tPc = "effect" => timers = {}

C10_Witness ==
    /\ tHook = "useTimeoutFn"
    /\ tLife = "mounted"
    /\ Cardinality(timers) = 1
    /\ nextId >= 3
    /\ \E t \in timers : t.id = handle /\ t.id = nextId - 1

\* The listeners the instance has registered and not removed.
Mine == {l \in listeners : l.fn.gen > 0}

(***************************************************************************)
(* C5.  Listener hooks: once the instance is deactivated, every event      *)
(* target carries exactly the listeners it carried before the activation,  *)
(* whether or not an event was ever delivered.                             *)
(***************************************************************************)
C5_NoResidualListeners ==
    lLife = "unmounted" => listeners = before

C5_Witness ==
    /\ lHook = "useOnClickOutside"
    /\ lLife = "unmounted"
    /\ lGen = 1
    /\ ~delivered
    /\ before = Foreign
    /\ listeners = before

(***************************************************************************)
(* C9.  useEventListener, useMediaQuery, useKeyPress: in every reachable   *)
(* state the instance has at most one live listener per event type, each   *)
(* registered by the last effect run on that run's target; between the     *)
(* cleanup and the rerun of a parameter change it has none.                *)
(***************************************************************************)
C9_OneLiveListener ==
    lHook \in {"useEventListener", "useMediaQuery", "useKeyPress"} =>
        /\ \A l1, l2 \in Mine : l1.type = l2.type => l1 = l2
        /\ \A l \in Mine : l.fn.gen = lEff.gen /\ l.target = lEff.target
        /\ lPc = "effect" => Mine = {}

C9_Witness ==
    /\ lHook = "useKeyPress"
    /\ lLife = "mounted"
    /\ lPc = "idle"
    /\ lGen = 3
    /\ Cardinality(Mine) = 2
    /\ delivered

(***************************************************************************)
(* C6.  useScript: an instance whose first render finds a terminal status  *)
(* ('ready' or 'error') cached for its src reports that status from that   *)
(* render on, and its effect creates no script element, whether or not the *)
(* instance that reached the status is still active.                       *)
(***************************************************************************)
C6_CachedShortCircuit ==
    [][\A i \in Inst :
          (/\ inst[i].life = "rendered"
           /\ inst'[i].life = "mounted"
           /\ inst[i].cachedStatus \in {"ready", "error"})
          => /\ inst[i].status = inst[i].cachedStatus
             /\ inst'[i].status = inst[i].cachedStatus
             /\ Len(scripts') = Len(scripts)]_vars

(***************************************************************************)
(* C7.  useLocalStorage, useSessionStorage: an instance activated over a   *)
(* key under which a setValue(v) was last written (the store accepted the  *)
(* write) starts with the value v, whatever initialValue it is given; and  *)
(* in every state a fresh instance over such a key would start with v.     *)
(***************************************************************************)
C7_StorageRoundTrip ==
    gHook \in {"useLocalStorage", "useSessionStorage"} =>
        /\ \A i \in SInst :
              (sInst[i].life # "none" /\ sInst[i].sawWritten # NoVal) =>
                  /\ sInst[i].life # "crashed"
                  /\ sInst[i].first = sInst[i].sawWritten
        /\ \A k \in Keys, init \in Inits :
              written[k] # NoVal =>
                  ReadInitial(gHook, store[k], init) =
                      [threw |-> FALSE, val |-> written[k]]

C7_Witness ==
    /\ gHook = "useSessionStorage"
    /\ sInst[1].life = "mounted"
    /\ sInst[1].storedValue = VFalse
    /\ sInst[2].life = "mounted"
    /\ sInst[2].key = sInst[1].key
    /\ sInst[2].initialValue = VA
    /\ sInst[2].sawWritten = VFalse
    /\ sInst[2].first = VFalse

(***************************************************************************)
(* C8.  useLocalStorage, useSessionStorage, usePersistedState: an instance *)
(* activated over a key whose stored item cannot be parsed starts with the *)
(* initial value it was given, and no exception reaches the consumer.      *)
(***************************************************************************)
C8_CorruptItemFallsBack ==
    \A i \in SInst :
        (sInst[i].life # "none" /\ sInst[i].sawCorrupt) =>
            /\ sInst[i].life # "crashed"
            /\ sInst[i].first = sInst[i].initialValue

(***************************************************************************)
(* C11.  useThrottle(value, d) behaves as useDebounce(value, d): given the *)
(* same input changes and timer expirations, the two state cells hold the  *)
(* same value, the two hooks have committed the same values at the same    *)
(* times and have the same timeouts pending; and every commit comes at     *)
(* least d after the last input change, so none falls inside a stream of   *)
(* changes spaced less than d apart.                                       *)
(***************************************************************************)
C11_ThrottleIsDebounce ==
    /\ pState["useThrottle"] = pState["useDebounce"]
    /\ pLog["useThrottle"] = pLog["useDebounce"]
    /\ pTimers["useThrottle"] = pTimers["useDebounce"]
    /\ \A h \in PairHooks : \A n \in DOMAIN pLog[h] :
          pLog[h][n].at - pLog[h][n].since >= pLog[h][n].wait

\* A stream of changes that superseded pending timeouts, then one commit, of
\* the last value, by both hooks.
C11_Witness ==
    /\ pChanges >= 2
    /\ pSuperseded["useThrottle"] >= 2
    /\ Len(pLog["useThrottle"]) = 1
    /\ pLog["useThrottle"][1].val = pValue
    /\ pLog["useThrottle"][1].wait >= 1
    /\ pState["useThrottle"] = pValue

(***************************************************************************)
(* C12.  The script-status cache only advances: a step never removes or    *)
(* changes an entry that holds 'ready' or 'error'.                         *)
(***************************************************************************)
C12_CacheOnlyAdvances ==
    [][\A s \in Srcs :
          cachedScriptStatuses[s] \in {"ready", "error"}
             => cachedScriptStatuses'[s] = cachedScriptStatuses[s]]_vars

(***************************************************************************)
(* C13.  useDragDrop: after a drag-leave on the target that was the        *)
(* current overDropId, and after any drop, overDropId is null.             *)
(***************************************************************************)
C13_OverDropIdCleared ==
    /\ ddLast.type = "leave" /\ ddLast.wasOver = ddLast.dropId
          => ddState.overDropId = Null
    /\ ddLast.type = "drop" => ddState.overDropId = Null

(***************************************************************************)
(* C14.  useDragDrop: the consumer's onDrop has been invoked once per drop *)
(* event, and the invocation made by the last drop had as arguments the    *)
(* text the event's transfer carried (the id handleDragStart wrote, for a  *)
(* drag the instance started) and the drop id of the target; it went to    *)
(* the onDrop of the render before the event.                              *)
(***************************************************************************)
C14_DropInvokesOnce ==
    /\ Len(dropCalls) = ddDrops
    /\ ddLast.type = "drop" =>
          dropCalls[Len(dropCalls)] =
             [cb |-> ddLast.cb, dragId |-> ddLast.payload, dropId |-> ddLast.dropId]

\* Two drops: one of a drag the instance started, then one of a drag that
\* started elsewhere, while the state still names the first drag.
C14_Witness ==
    /\ ddDrops = 2
    /\ ddLast.type = "drop"
    /\ dropCalls[1].dragId \in DragIds
    /\ dropCalls[2].dragId \in ForeignData
    /\ dropCalls[2].dropId # dropCalls[1].dropId

(***************************************************************************)
(* C15.  useScrollLock, useLockBodyScroll, one instance: once the instance *)
(* has locked and is unmounted, document.body.style.overflow is what it    *)
(* was right before the instance first locked.                             *)
(***************************************************************************)
C15_OverflowRestored ==
    kLife = "unmounted" /\ kLocked => styleOverflow = kBefore

C17_AbsentBatteryReported ==
    (~bReady \/ ~bGetBattery) /\ bLife # "init"
       => /\ bLife # "crashed"
          /\ batteryState.supported = FALSE
          /\ batteryState.loading = FALSE

(***************************************************************************)
(* C18.  useFetch, useFetchRetry: after the url has changed, the operation *)
(* started for the old url commits nothing; and once the operations for    *)
(* both urls have completed, the last commit was not the old one's.        *)
(***************************************************************************)
C18_StaleResultDiscarded ==
    [][(fHook \in {"useFetch", "useFetchRetry"}) =>
          ((\A i \in DOMAIN runs :
               (runs'[i].commits > runs[i].commits) => (runs[i].url = url))
           /\ ((Len(runs') = 2 /\ (\A i \in DOMAIN runs' : runs'[i].pc = "done"))
                  => (writer' # 1)))]_vars

(***************************************************************************)
(* C19.  useAxios: the completion of a makeRequest call during whose       *)
(* flight cancelRequest() was called, or the adapter unmounted, changes    *)
(* none of data, error and loading.                                        *)
(***************************************************************************)
C19_CancelledCompletionDiscarded ==
    [][\A i \in DOMAIN requests :
          requests[i].pc = "flight" /\ requests[i].revoked
          /\ requests'[i].pc = "done"
             => <<aData, aError, aLoading>>' = <<aData, aError, aLoading>>]_vars

(***************************************************************************)
(* C20.  useBattery: when the adapter was unmounted before getBattery()    *)
(* resolved and the promise has resolved since, the listeners registered   *)
(* on the battery manager are those registered before the activation.      *)
(***************************************************************************)
C20_NoListenerAfterLateResolve ==
    bLife = "unmounted" /\ bPromise = "resolved" /\ bLate
       => bListeners = bBefore

(***************************************************************************)
(* C21.  useAsync: in every state, status = 'success' implies error = null *)
(* and status = 'error' implies value = null.                              *)
(***************************************************************************)
C21_AsyncStatusConsistent ==
    fHook = "useAsync" =>
        /\ state.status = "success" => state.error = Null
        /\ state.status = "error" => state.value = Null

(***************************************************************************)
(* C22.  useScript: an instance whose status is 'ready' has a script       *)
(* element for its src that has fired its load event.                      *)
(***************************************************************************)
C22_ReadyOnlyAfterLoad ==
    \A i \in Inst :
        inst[i].life \in {"rendered", "mounted"} /\ inst[i].status = "ready"
           => \E e \in DOMAIN scripts :
                 scripts[e].src = inst[i].src /\ scripts[e].phase = "loaded"


(***************************************************************************)
(* C24  useLocalStorage / useSessionStorage: when a call of setValue has   *)
(* returned, with the store available, the value the calling instance      *)
(* holds in memory is the value that parsing the item stored under its key *)
(* gives, also when the store rejected the write.  Stated of the steps     *)
(* that are calls of setValue changing the caller's value.                 *)
(***************************************************************************)
C24_MemoryMatchesStore ==
    [][\A i \in SInst :
         ((/\ gHook \in {"useLocalStorage", "useSessionStorage"}
           /\ gReady
           /\ gOps' = gOps + 1
           /\ sInst'[i].key = sInst[i].key
           /\ sInst'[i].storedValue # sInst[i].storedValue)
            => (/\ Parse(store'[sInst'[i].key]).ok
                /\ Parse(store'[sInst'[i].key]).val = sInst'[i].storedValue))]_vars

(***************************************************************************)
(* C27  usePersistedState: an entry of the store that holds an item is     *)
(* given another item only if some instance whose current key is the       *)
(* entry's key had its state set by the consumer while that key was        *)
(* current; in particular rendering with another key k2 leaves the item    *)
(* stored under k2 as it was.                                              *)
(***************************************************************************)
C27_KeyChangeKeepsEntry ==
    [][\A k \in Keys :
         ((/\ gHook = "usePersistedState"
           /\ Truthy(store[k])
           /\ store'[k] # store[k])
            => (\E i \in SInst : (sInst[i].key = k /\ sInst[i].updated)))]_vars

(***************************************************************************)
(* C28  useDragDrop: once a gesture that began with a drag-start of the    *)
(* instance has ended, by a drop or without one, the state is idle:        *)
(* isDragging = false and isOver = false.                                  *)
(***************************************************************************)
C28_GestureEndsIdle ==
    (transfer = NoDrag /\ ddLast.payload \in DragIds)
        => (~ddState.isDragging /\ ~ddState.isOver)

(***************************************************************************)
(* C29  useDragDrop: a drag-leave on A that directly follows a drag-enter  *)
(* on B, where A # B and A was the target entered before, changes          *)
(* nothing: after it overDropId = B and isOver = true.                     *)
(***************************************************************************)
C29_LeaveOfOtherTargetIgnored ==
    [][\A a \in DropIds :
         ((/\ ddLast.type = "enter"
           /\ ddLast.wasOver = a
           /\ ddLast.dropId # a
           /\ ddEvents' = ddEvents + 1
           /\ ddLast'.type = "leave"
           /\ ddLast'.dropId = a)
            => (/\ ddState' = ddState
                /\ ddState'.overDropId = ddLast.dropId
                /\ ddState'.isOver))]_vars

(***************************************************************************)
(* C23  useScrollLock, useLockBodyScroll, several instances: when two      *)
(* instances have held a lock at the same time and no instance holds one   *)
(* any more (each has been unlocked or unmounted, in any order),           *)
(* document.body.style.overflow is what it was right before the first of   *)
(* them locked.                                                            *)
(***************************************************************************)
C23_OverlappingLocksRestore ==
    (/\ mOverlap
     /\ \A i \in LockInst : (mInst[i].pc = "idle" /\ ~HoldsLock(mInst[i])))
        => mStyle = mBefore

(***************************************************************************)
(* C25  useHoverIntent: a timeout that was pending when the instance was   *)
(* unmounted never sets isHovering afterwards.                             *)
(***************************************************************************)
C25_NoHoverAfterUnmount == ~hiLateSet

(***************************************************************************)
(* C26  useDebouncedCallback: the callback is invoked only as a            *)
(* consequence of a call of the debounced function: while the debounced    *)
(* function has not been called since the activation, the callback has not *)
(* been invoked.                                                           *)
(***************************************************************************)
C26_InvokedOnlyAfterCall == (dCalls = 0) => (calls = 0)

(***************************************************************************)
(* C30  useElementSize, useResizeObserver, useIntersectionObserver,        *)
(* useHover: while the instance is mounted and no effect is outstanding,   *)
(* the elements under observation are the bound element if it is not null  *)
(* and none otherwise: a null element is never observed, and after a       *)
(* change of the bound element the new element and only it is observed.    *)
(***************************************************************************)
C30_BoundElementObserved ==
    (oLife = "mounted" /\ oPc = "idle")
        => ({o.el : o \in oObserved} = (IF oRef # NoElement THEN {oRef} ELSE {}))

(***************************************************************************)
(* C31  useDarkMode: in every state reached after at least one call of     *)
(* toggleDarkMode, document.body carries the class 'dark-mode' exactly     *)
(* when isDarkMode is true.                                                *)
(***************************************************************************)
C31_ClassFollowsMode == (dmToggles > 0) => (dmClass <=> isDarkMode)

(***************************************************************************)
(* C32  useClipboard: once a copy has succeeded, and whenever the platform *)
(* has run the timeouts that are due, `copied` is true exactly while less  *)
(* than 2 seconds have passed since the most recent successful copy.       *)
(***************************************************************************)
C32_CopiedForTwoSeconds ==
    (cbLastCopy # NoCopy /\ (\A t \in cbTimers : t.due > cbNow))
        => (copied <=> (cbNow < cbLastCopy + ClipboardResetDelay))

(***************************************************************************)
(* C33  useCountUp: once a tick has brought count to the target, the       *)
(* interval is cancelled: while the instance stays mounted with the same   *)
(* target and duration no interval is registered, so no further tick       *)
(* occurs.                                                                 *)
(***************************************************************************)
C33_IntervalCancelledAtTarget ==
    (cuLife = "mounted" /\ cuPc = "idle" /\ cuTicks > 0 /\ count >= target)
        => cuInterval = NoInterval

\* The value of the cookie of j whose name is exactly key, null if there is none.
CookieNamed(j, key) ==
    IF \E i \in DOMAIN j : j[i].name = key
    THEN SomeCookie(j[CHOOSE i \in DOMAIN j : j[i].name = key].value)
    ELSE NullCookie

(***************************************************************************)
(* C34  useCookie(key): the value the first render produces is the value   *)
(* of the cookie whose name is exactly key, or null when no cookie has     *)
(* that name, whatever other cookies the document holds and in whatever    *)
(* order.                                                                  *)
(***************************************************************************)
C34_InitialIsCookieOfKey ==
    (ckLife = "mounted") => (ckInitial = CookieNamed(ckJarThen, ckKey))
====
